---- MODULE Spec2Model ----
(***************************************************************************)
(* Model of the video-resolution route (src/unnamed/part_002, the first    *)
(* route file, lines 1-1318): the per-IP rate limiter, the URL             *)
(* classifiers, the Facebook share-link resolver, the Facebook and         *)
(* Instagram strategy chains and the POST handler that wraps them.         *)
(*                                                                         *)
(* JavaScript values: strings are TLA+ strings; null and undefined are the *)
(* reserved strings Null and Undefined; an object is a function from its   *)
(* keys to values, and a strategy that returns null returns JsNull (the    *)
(* function with no keys).  Remote markup is represented by the captures   *)
(* the source's regular expressions would make on it (one field per        *)
(* pattern list), since only those captures reach the program.             *)
(***************************************************************************)
EXTENDS Integers, Sequences, FiniteSets, TLC

VARIABLES
  now,           \* Date.now(), milliseconds
  rateLimitMap,  \* ip -> record {count, lastReset} or NoRecord
  pc,            \* position of the request being handled
  reqIp,         \* client of the request being handled
  reqBody,       \* the body of the request being handled
  originalUrl,   \* fetchFacebookVideo: originalUrl
  resolvedUrl,   \* fetchFacebookVideo: resolvedUrl (and url after line 338)
  step,          \* index of the next entry of the strategy list being iterated
  result,        \* the strategy result being carried to the caller
  calls,         \* log of outbound calls made for the request, in order
  sub,           \* position inside the Instagram approach being run
  response,      \* the HTTP response of the request, NoResponse until sent
  backendUrl,    \* process.env.BACKEND_URL (Undefined when unset)
  admittedInWindow, \* history: per client, the requests admitted since the
                    \* client's window last started
  windowsStarted,   \* history: per client, the windows started so far
  inflight,         \* the handlers running side by side: per slot, where the
                    \* handler stands and what it read
  admittedAt,       \* history: per client, the times of its latest admissions
  pureCalls,        \* the pure functions called on their own: the inputs
                    \* drawn, and per call the function, argument and outcome
  reel,             \* the backend's GET /api/reel handler: where it stands,
                    \* its query, its browser, the page and its response
  awaiting          \* the outbound calls of the request being handled that
                    \* were issued and have not settled yet

vars == <<now, rateLimitMap, pc, reqIp, reqBody, originalUrl, resolvedUrl,
          step, sub, result, calls, response, backendUrl, admittedInWindow,
          windowsStarted, inflight, admittedAt, pureCalls, reel, awaiting>>

\* body.url of the request being handled
reqUrl == reqBody.url

-----------------------------------------------------------------------------
(* JavaScript values *)

Null == "<null>"
Undefined == "<undefined>"
JsNull == <<>>
JsTrue == "true"
JsFalse == "<false>"

\* JavaScript truthiness of a string-or-null-or-undefined value, as used by
\* `result.video_url`, `data.url`, `!url`, `!result.thumbnail`.
Truthy(v) == v \notin {Null, Undefined, "", JsFalse}

\* Property read: a missing key reads as undefined.
Get(o, k) == IF k \in DOMAIN o THEN o[k] ELSE Undefined

\* `r && r.video_url`, the test every caller of a strategy applies.
\* (ResultHasVideoUrlKey: the test reduced to the presence of the key.)
ResultHasVideoUrlKey(r) == "video_url" \in DOMAIN r
ResultHasVideoUrl(r) == Truthy(Get(r, "video_url"))

\* Object literal / property assignment.
Put(o, k, v) == [x \in (DOMAIN o) \cup {k} |-> IF x = k THEN v ELSE o[x]]

-----------------------------------------------------------------------------
(* Strings and the regular-expression fragments the source uses *)

LowerChars == "abcdefghijklmnopqrstuvwxyz"
UpperChars == "ABCDEFGHIJKLMNOPQRSTUVWXYZ"
DigitChars == "0123456789"

Char(s, i) == SubSeq(s, i, i)

CharsOf(s) == {Char(s, i) : i \in 1..Len(s)}

\* [A-Za-z0-9]
AlnumChars == CharsOf(LowerChars) \cup CharsOf(UpperChars) \cup CharsOf(DigitChars)

\* [\w-]
WordDashChars == AlnumChars \cup {"_", "-"}

\* The literal lit occurs in s at position i.
MatchAt(s, lit, i) ==
  /\ i >= 1
  /\ i + Len(lit) - 1 <= Len(s)
  /\ SubSeq(s, i, i + Len(lit) - 1) = lit

\* An unanchored literal pattern: /lit/.test(s)
Contains(s, lit) == \E i \in 1..Len(s) : MatchAt(s, lit, i)

\* Position of the leftmost occurrence of lit in s (0 when there is none).
IndexOf(s, lit) ==
  IF Contains(s, lit)
    THEN CHOOSE i \in 1..Len(s) :
           MatchAt(s, lit, i) /\ \A j \in 1..(i - 1) : ~MatchAt(s, lit, j)
    ELSE 0

\* /a.*b/.test(s): a, then anything, then b.
ContainsThen(s, a, b) ==
  \E i \in 1..Len(s) :
    /\ MatchAt(s, a, i)
    /\ \E j \in (i + Len(a))..Len(s) : MatchAt(s, b, j)

\* End of the maximal run of characters of class cls starting at i
\* (i - 1 when s[i] is not in the class): the greedy ([cls]+) capture.
RECURSIVE RunEnd(_, _, _)
RunEnd(s, i, cls) ==
  IF i <= Len(s) /\ Char(s, i) \in cls THEN RunEnd(s, i + 1, cls) ELSE i - 1

\* ASCII lower-casing of one character (the /i flag).
LowerOf(c) ==
  IF c \in CharsOf(UpperChars)
    THEN Char(LowerChars, IndexOf(UpperChars, c))
    ELSE c

RECURSIVE ToLower(_)
ToLower(s) == IF s = "" THEN "" ELSE LowerOf(Char(s, 1)) \o ToLower(Tail(s))

\* String.prototype.replace(a, b) with a string pattern: the first occurrence.
ReplaceFirst(s, a, b) ==
  LET i == IndexOf(s, a) IN
  IF i = 0 THEN s
  ELSE SubSeq(s, 1, i - 1) \o b \o SubSeq(s, i + Len(a), Len(s))

-----------------------------------------------------------------------------
(* Rate limiter *)

RATE_LIMIT == 10
RATE_LIMIT_WINDOW == 60 * 1000

Clients == {"10.0.0.1", "10.0.0.2"}

NoRecord == [count |-> 0, lastReset |-> -1]

\* Line 12: no record, or the record's window has elapsed.
RateFresh(record, t) ==
  record = NoRecord \/ t - record.lastReset > RATE_LIMIT_WINDOW

\* Line 17: the record is at the limit.
\* (RateOverLimit: the test with > in place of >=, one request too many.)
RateOverLimit(record) == record.count > RATE_LIMIT
RateAtLimit(record) == record.count >= RATE_LIMIT

\* checkRateLimit(ip): the value returned.
\* (checkRateLimitOpen: a limiter that admits everything.)
checkRateLimitOpen(map, ip, t) == TRUE
checkRateLimit(map, ip, t) ==
  IF RateFresh(map[ip], t) THEN TRUE
  ELSE IF RateAtLimit(map[ip]) THEN FALSE
  ELSE TRUE

\* checkRateLimit(ip): the map it leaves behind.
\* (rateLimitAfterUncapped: the count goes up on a rejected request too.
\*  rateLimitAfterSliding: a rejected request restarts the window.)
rateLimitAfterUncapped(map, ip, t) ==
  IF RateFresh(map[ip], t)
    THEN [map EXCEPT ![ip] = [count |-> 1, lastReset |-> t]]
  ELSE [map EXCEPT ![ip].count = @ + 1]
rateLimitAfterSliding(map, ip, t) ==
  IF RateFresh(map[ip], t)
    THEN [map EXCEPT ![ip] = [count |-> 1, lastReset |-> t]]
  ELSE IF RateAtLimit(map[ip]) THEN [map EXCEPT ![ip].lastReset = t]
  ELSE [map EXCEPT ![ip].count = @ + 1]
rateLimitAfter(map, ip, t) ==
  IF RateFresh(map[ip], t)
    THEN [map EXCEPT ![ip] = [count |-> 1, lastReset |-> t]]
  ELSE IF RateAtLimit(map[ip]) THEN map
  ELSE [map EXCEPT ![ip].count = @ + 1]

-----------------------------------------------------------------------------
(* URL classifiers *)

\* extractShortcode: the first of the four patterns that matches, its
\* leftmost match, the greedy [\w-]+ capture; Null when none matches.
ShortcodeKinds == <<"instagram.com/p/", "instagram.com/reel/",
                    "instagram.com/reels/", "instagram.com/tv/">>

\* Leftmost position at which lit is followed by at least one [\w-] (0: none).
ShortcodeMatchPos(url, lit) ==
  LET ok(i) == MatchAt(url, lit, i) /\ RunEnd(url, i + Len(lit), WordDashChars) >= i + Len(lit)
  IN IF \E i \in 1..Len(url) : ok(i)
       THEN CHOOSE i \in 1..Len(url) : ok(i) /\ \A j \in 1..(i - 1) : ~ok(j)
       ELSE 0

extractShortcode(url) ==
  LET hits == {k \in 1..Len(ShortcodeKinds) : ShortcodeMatchPos(url, ShortcodeKinds[k]) > 0}
  IN IF hits = {} THEN Null
     ELSE LET k == CHOOSE k \in hits : \A h \in hits : k <= h
              lit == ShortcodeKinds[k]
              i == ShortcodeMatchPos(url, lit)
          IN SubSeq(url, i + Len(lit), RunEnd(url, i + Len(lit), WordDashChars))

isFacebookURL(url) ==
  \/ Contains(url, "facebook.com/reel/")
  \/ ContainsThen(url, "facebook.com/", "/videos/")
  \/ Contains(url, "fb.watch/")
  \/ Contains(url, "facebook.com/watch/")
  \/ Contains(url, "facebook.com/share/")
  \/ Contains(url, "m.facebook.com/share/")

\* (isFacebookShareURLNoGeneric: sharePatterns without the generic /share/.)
isFacebookShareURLNoGeneric(url) ==
  \/ Contains(url, "facebook.com/share/r/")
  \/ Contains(url, "facebook.com/share/v/")
  \/ Contains(url, "facebook.com/share/reel/")
  \/ Contains(url, "m.facebook.com/share/r/")

isFacebookShareURL(url) ==
  \/ Contains(url, "facebook.com/share/r/")
  \/ Contains(url, "facebook.com/share/v/")
  \/ Contains(url, "facebook.com/share/reel/")
  \/ Contains(url, "facebook.com/share/")
  \/ Contains(url, "m.facebook.com/share/r/")

\* POST, lines 1287-1294: the anchored Instagram patterns.
IgValidKinds == {"instagram.com/p/", "instagram.com/reel/",
                 "instagram.com/reels/", "instagram.com/tv/"}
IgValidPrefixes == {scheme \o www \o kind :
                      scheme \in {"http://", "https://"},
                      www \in {"www.", ""},
                      kind \in IgValidKinds}

\* (isValidInstagramURLUnanchored: validPatterns without the ^https?:// anchor.)
isValidInstagramURLUnanchored(url) ==
  \E kind \in IgValidKinds : ShortcodeMatchPos(url, kind) > 0

isValidInstagramURL(url) ==
  \E p \in IgValidPrefixes :
    /\ MatchAt(url, p, 1)
    /\ RunEnd(url, Len(p) + 1, WordDashChars) >= Len(p) + 1

-----------------------------------------------------------------------------
(* Base-62 decoder for Facebook share IDs *)

\* (Base62AlphabetUpperFirst: the alphabet with the letter cases swapped.)
Base62AlphabetUpperFirst == DigitChars \o UpperChars \o LowerChars
Base62Alphabet == DigitChars \o LowerChars \o UpperChars

\* A BigInt is kept as its decimal digits, least significant first; zero is
\* the empty sequence.  digits * m + a, with no wrap-around.
RECURSIVE BigMulAdd(_, _, _)
BigMulAdd(digits, m, a) ==
  IF digits = <<>>
    THEN IF a = 0 THEN <<>> ELSE <<a % 10>> \o BigMulAdd(<<>>, m, a \div 10)
    ELSE LET v == Head(digits) * m + a
         IN <<v % 10>> \o BigMulAdd(Tail(digits), m, v \div 10)

\* BigInt.prototype.toString()
RECURSIVE BigDigitsToString(_)
BigDigitsToString(digits) ==
  IF digits = <<>> THEN ""
  ELSE BigDigitsToString(Tail(digits)) \o Char(DigitChars, Head(digits) + 1)

BigToString(digits) == IF digits = <<>> THEN "0" ELSE BigDigitsToString(digits)

\* The loop of lines 75-84 from position i with accumulator acc; Thrown when
\* a character is not in the alphabet.
Thrown == "<throw>"

\* (Base62LoopSkipping: a loop that passes over a character it does not know.)
RECURSIVE Base62LoopSkipping(_, _, _)
Base62LoopSkipping(s, i, acc) ==
  IF i > Len(s) THEN BigToString(acc)
  ELSE LET value == IndexOf(Base62Alphabet, Char(s, i)) - 1
       IN IF value = -1 THEN Base62LoopSkipping(s, i + 1, acc)
          ELSE Base62LoopSkipping(s, i + 1, BigMulAdd(acc, 62, value))

RECURSIVE Base62Loop(_, _, _)
Base62Loop(s, i, acc) ==
  IF i > Len(s) THEN BigToString(acc)
  ELSE LET value == IndexOf(Base62Alphabet, Char(s, i)) - 1
       IN IF value = -1 THEN Thrown
          ELSE Base62Loop(s, i + 1, BigMulAdd(acc, 62, value))

\* (base62ToDecimalFolded: the identifier lower-cased before it is decoded.)
base62ToDecimalFolded(base62) == Base62Loop(ToLower(base62), 1, <<>>)
base62ToDecimal(base62) == Base62Loop(base62, 1, <<>>)

\* resolveFacebookShareURL_Improved, lines 96-97:
\* url.match(/\/share\/[rv]\/([A-Za-z0-9]+)/i); Null when there is no match.
ShareIdPos(url) ==
  LET low == ToLower(url)
      ok(i) == /\ MatchAt(low, "/share/", i)
               /\ i + 8 <= Len(low)
               /\ Char(low, i + 7) \in {"r", "v"}
               /\ Char(low, i + 8) = "/"
               /\ RunEnd(url, i + 9, AlnumChars) >= i + 9
  IN IF \E i \in 1..Len(url) : ok(i)
       THEN CHOOSE i \in 1..Len(url) : ok(i) /\ \A j \in 1..(i - 1) : ~ok(j)
       ELSE 0

\* (extractShareIdWord: the capture taken as [\w-]+.)
extractShareIdWord(url) ==
  LET i == ShareIdPos(url)
  IN IF i = 0 THEN Null ELSE SubSeq(url, i + 9, RunEnd(url, i + 9, WordDashChars))
extractShareId(url) ==
  LET i == ShareIdPos(url)
  IN IF i = 0 THEN Null ELSE SubSeq(url, i + 9, RunEnd(url, i + 9, AlnumChars))

-----------------------------------------------------------------------------
(* Unescaping of captured values *)

\* String.prototype.replace(/a/g, b): every occurrence, left to right.
RECURSIVE ReplaceAll(_, _, _)
ReplaceAll(s, a, b) ==
  LET i == IndexOf(s, a) IN
  IF i = 0 THEN s
  ELSE SubSeq(s, 1, i - 1) \o b \o ReplaceAll(SubSeq(s, i + Len(a), Len(s)), a, b)

Backslash == "\\"

\* .replace(/\\u0025/g,"%").replace(/\\u0026/g,"&").replace(/\\u002F/g,"/").replace(/\\/g,"")
UnescapeFb(raw) ==
  ReplaceAll(ReplaceAll(ReplaceAll(ReplaceAll(raw,
    Backslash \o "u0025", "%"), Backslash \o "u0026", "&"),
    Backslash \o "u002F", "/"), Backslash, "")

\* .replace(/\\u0026/g,"&").replace(/\\u002F/g,"/").replace(/\\/g,"")
UnescapeIg(raw) ==
  ReplaceAll(ReplaceAll(ReplaceAll(raw,
    Backslash \o "u0026", "&"), Backslash \o "u002F", "/"), Backslash, "")

\* .replace(/&amp;/g, "&")
UnescapeAmp(raw) == ReplaceAll(raw, "&amp;", "&")

\* encodeURIComponent (line 806): letters, digits and - _ . ! ~ * ' ( ) are
\* kept, every other character becomes its percent escape.
UriEscapes ==
  [c \in {":", "/", "?", "=", "&", "#", "%", "+", " ", ",", ";", "@", "$"} |->
     CASE c = ":" -> "%3A" [] c = "/" -> "%2F" [] c = "?" -> "%3F"
       [] c = "=" -> "%3D" [] c = "&" -> "%26" [] c = "#" -> "%23"
       [] c = "%" -> "%25" [] c = "+" -> "%2B" [] c = " " -> "%20"
       [] c = "," -> "%2C" [] c = ";" -> "%3B" [] c = "@" -> "%40"
       [] c = "$" -> "%24"]

RECURSIVE encodeURIComponent(_)
encodeURIComponent(s) ==
  IF s = "" THEN ""
  ELSE LET c == SubSeq(s, 1, 1)
       IN (IF c \in DOMAIN UriEscapes THEN UriEscapes[c] ELSE c)
            \o encodeURIComponent(SubSeq(s, 2, Len(s)))

\* .replace(/\\/g, "").replace(/&amp;/g, "&")
UnescapeThumb(raw) == UnescapeAmp(ReplaceAll(raw, Backslash, ""))

-----------------------------------------------------------------------------
(* Remote answers *)

\* The outcome of one fetch: net = "throw" (network error, abort, timeout or
\* an unparsable body: the await rejects), "bad" (response.ok is false) or
\* "ok" with the body.  A markup body is the function from the patterns that
\* match it to what each captures; a JSON body is the object.
NetThrow == [net |-> "throw", body |-> <<>>]
NetBad == [net |-> "bad", body |-> <<>>]
NetOk(b) == [net |-> "ok", body |-> b]

\* One-key and two-key bodies.
M1(k, v) == [x \in {k} |-> v]
M2(k1, v1, k2, v2) == [x \in {k1, k2} |-> IF x = k1 THEN v1 ELSE v2]
M3(k1, v1, k2, v2, k3, v3) ==
  [x \in {k1, k2, k3} |-> IF x = k1 THEN v1 ELSE IF x = k2 THEN v2 ELSE v3]

\* Capture of the first pattern of the list that matches the page
\* (Undefined when none does): `for (const pattern of patterns) { match ... }`.
FirstCapture(page, patterns) ==
  LET hits == {i \in 1..Len(patterns) : patterns[i] \in DOMAIN page}
  IN IF hits = {} THEN Undefined
     ELSE page[patterns[CHOOSE i \in hits : \A h \in hits : i <= h]]

\* Values the remote side may put where a URL is expected.
VidAbs == "https://v.fb/a.mp4"
VidAbsEscaped == "https:\\/\\/v.fb\\/a.mp4"
VidSd == "https://v.fb/sd.mp4"
VidRel == "/v/a.mp4"
VidBlob == "blob:https://www.instagram.com/3f1c"
ThumbAbs == "https://t.fb/t.jpg"

-----------------------------------------------------------------------------
(* Facebook extraction strategies *)

\* fetchViaFacebookAPI: the embed-player page.
FbApiHdPatterns == <<"\"playable_url_quality_hd\":", "\"browser_native_hd_url\":",
                     "\"hd_src\":", "hd_src:", "\"playable_url\":">>
FbApiSdPatterns == <<"\"browser_native_sd_url\":", "\"sd_src\":", "sd_src:",
                     "\"video_url\":">>
FbApiThumbPatterns == <<"\"preferred_thumbnail\":", "\"thumbnailImage\":",
                        "\"og:image\" content=", "\"thumbnail_url\":",
                        "property=\"og:image\" content=">>

fetchViaFacebookAPI(resp) ==
  IF resp.net # "ok" THEN JsNull
  ELSE LET html == resp.body
           t == FirstCapture(html, FbApiThumbPatterns)
           thumbnail == IF t = Undefined THEN Undefined ELSE UnescapeThumb(t)
           hd == FirstCapture(html, FbApiHdPatterns)
           sd == FirstCapture(html, FbApiSdPatterns)
       IN IF hd # Undefined
            THEN M3("video_url", UnescapeFb(hd), "thumbnail", thumbnail, "quality", "HD")
          ELSE IF sd # Undefined
            THEN M3("video_url", UnescapeFb(sd), "thumbnail", thumbnail, "quality", "SD")
          ELSE JsNull

FbApiResponses ==
  { NetThrow, NetBad, NetOk(<<>>),
    NetOk(M2("\"playable_url_quality_hd\":", VidAbsEscaped, "\"thumbnail_url\":", ThumbAbs)),
    NetOk(M2("\"hd_src\":", VidAbsEscaped, "\"sd_src\":", VidSd)),
    NetOk(M1("\"playable_url\":", VidAbs)),
    NetOk(M1("\"sd_src\":", VidRel)),
    NetOk(M1("\"video_url\":", Backslash)),
    NetOk(M2("\"hd_src\":", VidAbsEscaped, "\"thumbnail_url\":", Backslash)) }

\* fetchViaCobalAPI: the delegated video-resolution API.
\* (CobaltStreamStatusesWithoutStream: one status forgotten.)
CobaltStreamStatusesWithoutStream == {"redirect", "tunnel"}
CobaltStreamStatuses == {"redirect", "stream", "tunnel"}

fetchViaCobalAPI(resp) ==
  IF resp.net # "ok" THEN JsNull
  ELSE LET data == resp.body
           thumb == IF Truthy(Get(data, "thumb")) THEN Get(data, "thumb") ELSE Undefined
       IN IF Get(data, "status") = "error" THEN JsNull
          ELSE IF Get(data, "status") \in CobaltStreamStatuses
            THEN [x \in {"video_url", "thumbnail", "quality", "duration"} |->
                    CASE x = "video_url" -> Get(data, "url")
                      [] x = "thumbnail" -> thumb
                      [] x = "quality" -> "HD"
                      [] x = "duration" -> Undefined]
          ELSE IF Truthy(Get(data, "url"))
            THEN M3("video_url", Get(data, "url"), "thumbnail", thumb, "quality", "HD")
          ELSE JsNull

CobaltResponses ==
  { NetThrow, NetBad,
    NetOk(M2("status", "error", "text", "unsupported")),
    NetOk(M2("status", "stream", "url", VidAbs)),
    NetOk(M3("status", "redirect", "url", VidAbs, "thumb", ThumbAbs)),
    NetOk(M1("status", "tunnel")),
    NetOk(M2("status", "picker", "url", VidRel)),
    NetOk(M1("status", "picker")) }

\* fetchViaFacebookDirect: the mobile page.
FbDirectHdPatterns == <<"\"playable_url_quality_hd\":", "\"browser_native_hd_url\":",
                        "hd_src:", "\"hd_src\":">>
FbDirectFallbackPatterns == <<"\"playable_url\":", "\"browser_native_sd_url\":",
                              "sd_src:", "\"video_url\":", "src=\"https://*.mp4\"",
                              "href=\"https://video*\"">>
FbDirectThumbPatterns == <<"\"preferred_thumbnail\":", "\"thumbnailImage\":",
                           "og:image\" content=">>

\* The page the strategy fetches: lines 701.
FbDirectMobileUrl(url) ==
  ReplaceFirst(ReplaceFirst(url, "www.facebook.com", "mbasic.facebook.com"),
               "m.facebook.com", "mbasic.facebook.com")

fetchViaFacebookDirect(resp) ==
  IF resp.net # "ok" THEN JsNull
  ELSE LET html == resp.body
           t == FirstCapture(html, FbDirectThumbPatterns)
           thumbnail == IF t = Undefined THEN Undefined ELSE UnescapeThumb(t)
           hd == FirstCapture(html, FbDirectHdPatterns)
           fb == FirstCapture(html, FbDirectFallbackPatterns)
       IN IF hd # Undefined
            THEN M3("video_url", UnescapeAmp(UnescapeFb(hd)), "thumbnail", thumbnail, "quality", "HD")
          ELSE IF fb # Undefined
            THEN M3("video_url", UnescapeAmp(UnescapeFb(fb)), "thumbnail", thumbnail, "quality", "SD")
          ELSE JsNull

FbDirectResponses ==
  { NetThrow, NetBad, NetOk(<<>>),
    NetOk(M2("\"browser_native_hd_url\":", VidAbsEscaped, "\"thumbnailImage\":", ThumbAbs)),
    NetOk(M2("hd_src:", VidAbs, "\"playable_url\":", VidSd)),
    NetOk(M1("\"playable_url\":", VidSd)),
    NetOk(M1("\"video_url\":", VidRel)) }

\* fetchViaSnapSave: the mirror site.
SnapSaveHdPatterns == <<"href download=\"*hd*.mp4\"", "href>*HD*</a>", "<a href class=\"*hd*\"">>
SnapSaveFallbackPatterns == <<"href download=\"*.mp4\"", "<a href class=\"*download*\"",
                              "href=\"https://*.mp4\"", "\"downloadUrl\":">>
SnapSaveThumbPatterns == <<"poster=", "\"thumbnail\":", "data-thumb=">>

\* .replace(/&amp;/g, "&").replace(/\\u002F/g, "/")
UnescapeSnapSave(raw) == ReplaceAll(UnescapeAmp(raw), Backslash \o "u002F", "/")

fetchViaSnapSave(resp) ==
  IF resp.net # "ok" THEN JsNull
  ELSE LET html == resp.body
           thumbnail == FirstCapture(html, SnapSaveThumbPatterns)
           hd == FirstCapture(html, SnapSaveHdPatterns)
           fb == FirstCapture(html, SnapSaveFallbackPatterns)
       IN IF hd # Undefined
            THEN M3("video_url", UnescapeSnapSave(hd), "thumbnail", thumbnail, "quality", "HD")
          ELSE IF fb # Undefined
            THEN M3("video_url", UnescapeSnapSave(fb), "thumbnail", thumbnail, "quality", "SD")
          ELSE JsNull

SnapSaveResponses ==
  { NetThrow, NetBad, NetOk(<<>>),
    NetOk(M2("href download=\"*hd*.mp4\"", VidAbs, "poster=", ThumbAbs)),
    NetOk(M2("href>*HD*</a>", VidAbs, "href download=\"*.mp4\"", VidSd)),
    NetOk(M1("\"downloadUrl\":", VidRel)),
    NetOk(M1("href=\"https://*.mp4\"", VidSd)) }

\* extractFacebookThumbnail: the thumbnail probe of the original URL.
FbThumbnailPatterns == <<"property=\"og:image\" content=", "meta content= property=\"og:image\"">>

extractFacebookThumbnail(resp) ==
  IF resp.net # "ok" THEN Null
  ELSE LET m == FirstCapture(resp.body, FbThumbnailPatterns)
       IN IF m = Undefined THEN Null ELSE UnescapeAmp(m)

FbThumbnailResponses ==
  { NetThrow, NetBad, NetOk(<<>>),
    NetOk(M1("property=\"og:image\" content=", "https://t.fb/og.jpg?a=1&amp;b=2")) }

-----------------------------------------------------------------------------
(* Facebook share-link resolver: resolveFacebookShareURL_Improved *)

\* Capture of the first pattern of the list whose capture, once &amp; is
\* decoded, is a canonical Facebook URL (Null when there is none).
\* (IsCanonicalFacebookAnyKind: the test without the share-link check.)
IsCanonicalFacebookAnyKind(u) == Truthy(u) /\ isFacebookURL(u)
IsCanonicalFacebook(u) == Truthy(u) /\ ~isFacebookShareURL(u) /\ isFacebookURL(u)

FirstCanonical(page, patterns) ==
  LET hits == {i \in 1..Len(patterns) :
                 /\ patterns[i] \in DOMAIN page
                 /\ IsCanonicalFacebook(UnescapeAmp(page[patterns[i]]))}
  IN IF hits = {} THEN Null
     ELSE UnescapeAmp(page[patterns[CHOOSE i \in hits : \A h \in hits : i <= h]])

\* Lines 123-131 and 167-175: the delegated resolver can handle the URL.
CobaltCanHandle(resp) ==
  /\ resp.net = "ok"
  /\ Get(resp.body, "status") \in CobaltStreamStatuses
  /\ Truthy(Get(resp.body, "url"))

CobaltProbeResponses ==
  { NetThrow, NetBad,
    NetOk(M2("status", "error", "text", "unsupported")),
    NetOk(M2("status", "stream", "url", VidAbs)),
    NetOk(M1("status", "tunnel")) }

\* Strategy 2: the URL built from the decoded share ID.
ConstructedReelUrl(id) == "https://www.facebook.com/reel/" \o id

\* Strategy 3, lines 226-272, on the followed page; Null when nothing matches.
MetaRefreshPatterns == <<"<meta http-equiv=\"refresh\" content=\"*url=">>
OgUrlPatterns == <<"property=\"og:url\" content=", "meta content= property=\"og:url\"",
                   "<link rel=\"canonical\" href=">>
ReelIdPatterns == <<"\"video_id\":", "\"videoID\":", "/reel/", "\"fbid\":">>

ResolveFromPage(html) ==
  LET refresh == FirstCanonical(html, MetaRefreshPatterns)
      og == FirstCanonical(html, OgUrlPatterns)
      reelId == FirstCapture(html, ReelIdPatterns)
  IN IF refresh # Null THEN refresh
     ELSE IF og # Null THEN og
     ELSE IF reelId # Undefined THEN ConstructedReelUrl(reelId)
     ELSE Null

\* Strategy 3: what the two requests of redirect tracing may answer.  Same
\* stands for response.url being the requested URL (no redirect happened).
Same == "<same>"
TraceAnswer(manualNet, location, followNet, finalUrl, html) ==
  [manualNet |-> manualNet, location |-> location, followNet |-> followNet,
   finalUrl |-> finalUrl, html |-> html]

TraceResponses ==
  { TraceAnswer("throw", Null, "throw", Same, <<>>),
    TraceAnswer("ok", "https://www.facebook.com/reel/111", "throw", Same, <<>>),
    TraceAnswer("ok", "https://www.facebook.com/share/v/zz/", "throw", Same, <<>>),
    TraceAnswer("ok", Null, "bad", Same, <<>>),
    TraceAnswer("ok", Null, "ok", "https://www.facebook.com/reel/222", <<>>),
    TraceAnswer("ok", Null, "ok", Same,
      M1("<meta http-equiv=\"refresh\" content=\"*url=", "https://www.facebook.com/watch/?v=3&amp;x=1")),
    TraceAnswer("ok", "https://example.com/login", "ok", "https://example.com/login",
      M2("property=\"og:url\" content=", "https://www.facebook.com/share/v/zz/",
         "<link rel=\"canonical\" href=", "https://www.facebook.com/u/videos/4/")),
    TraceAnswer("ok", Null, "ok", Same, M1("\"video_id\":", "555")),
    TraceAnswer("ok", Null, "ok", Same, <<>>) }

\* Strategy 3 as a whole: the URL it returns, Null when it is inconclusive.
ResolveByTrace(url, r) ==
  LET finalUrl == IF r.finalUrl = Same THEN url ELSE r.finalUrl
  IN IF r.manualNet = "throw" THEN Null
     ELSE IF IsCanonicalFacebook(r.location) THEN r.location
     ELSE IF r.followNet # "ok" THEN Null
     ELSE IF IsCanonicalFacebook(finalUrl) THEN finalUrl
     ELSE ResolveFromPage(r.html)

\* The follow request of strategy 3 is made only when the manual one answered
\* without a canonical Location.
TraceFollows(r) == r.manualNet # "throw" /\ ~IsCanonicalFacebook(r.location)

\* Strategy 4: the automation backend's answer.
BackendResolveResponses ==
  { NetThrow, NetBad, NetOk(<<>>),
    NetOk(M1("resolved_url", "https://www.facebook.com/reel/666")),
    NetOk(M1("resolved_url", "https://www.facebook.com/share/v/zz/")) }

\* (ResolveByBackendUncaught: a rejected fetch that is not caught.)
ResolveByBackendUncaught(resp) ==
  IF resp.net = "throw" THEN Thrown
  ELSE IF resp.net = "ok" /\ IsCanonicalFacebook(Get(resp.body, "resolved_url"))
    THEN Get(resp.body, "resolved_url")
    ELSE Null

ResolveByBackend(resp) ==
  IF resp.net = "ok" /\ IsCanonicalFacebook(Get(resp.body, "resolved_url"))
    THEN Get(resp.body, "resolved_url")
    ELSE Null

-----------------------------------------------------------------------------
(* Instagram extraction strategies *)

\* fetchInstagramData, lines 805-823: the Puppeteer backend's answer.
DefaultBackendUrl == "http://localhost:3001"

IgBackendResponses ==
  { NetThrow, NetBad,
    NetOk(M3("success", JsTrue, "videoUrl", VidAbs, "method", "network")),
    NetOk(M3("success", JsTrue, "videoUrl", VidBlob, "method", "alternative-video-element")),
    NetOk(M1("success", JsTrue)),
    NetOk(M2("success", JsFalse, "error", "Video not found")) }

\* The object returned at lines 816-821, JsNull when the backend did not
\* succeed (the fallback methods run).
IgBackendResult(resp) ==
  IF /\ resp.net = "ok"
     /\ Truthy(Get(resp.body, "success"))
     /\ Truthy(Get(resp.body, "videoUrl"))
    THEN [x \in {"video_url", "thumbnail", "quality", "method"} |->
            CASE x = "video_url" -> Get(resp.body, "videoUrl")
              [] x = "thumbnail" -> Null
              [] x = "quality" -> "HD"
              [] x = "method" -> "puppeteer-" \o
                   (IF Get(resp.body, "method") = Undefined THEN "undefined"
                    ELSE Get(resp.body, "method"))]
    ELSE JsNull

\* fetchViaInstagramAPI: the embed endpoint.
IgApiVideoPatterns == <<"\"video_url\":", "\"src\":\"*.mp4\"", "videoUrl:">>
IgApiThumbPatterns == <<"\"display_url\":", "\"thumbnail_url\":", "thumbnailUrl:">>

fetchViaInstagramAPI(resp) ==
  IF resp.net # "ok" THEN JsNull
  ELSE LET html == resp.body
           v == FirstCapture(html, IgApiVideoPatterns)
           t == FirstCapture(html, IgApiThumbPatterns)
       IN IF v = Undefined THEN JsNull
          ELSE M3("video_url", UnescapeIg(v),
                  "thumbnail", IF t = Undefined THEN Undefined ELSE UnescapeIg(t),
                  "quality", "HD")

IgApiResponses ==
  { NetThrow, NetBad, NetOk(<<>>),
    NetOk(M2("\"video_url\":", "https:\\u002F\\u002Fx.cdn\\u002Fvideo.mp4", "\"display_url\":", ThumbAbs)),
    NetOk(M1("videoUrl:", VidRel)),
    NetOk(M1("\"display_url\":", ThumbAbs)) }

\* extractVideoFromHTML.  The page is given by the captures on cleanHtml
\* (line 1146 has already been applied): doc for the whole markup, scripts
\* for each <script> element in order.
IgVideoPatterns == <<"\"video_url\":", "\"playback_url\":", "\"src\":\"*.mp4\"",
                     "\"videoUrl\":", "property=\"og:video:secure_url\" content=",
                     "property=\"og:video\" content=", "meta property=\"og:video\" content=",
                     "\"video_versions\":[{\"url\":", "\"video_dash_manifest\":*,\"video_url\":",
                     "videoUrl:", "\"contentUrl\":\"*.mp4\"", "src=\"*.mp4\"",
                     "\"url\":\"*.mp4\"">>
IgThumbPatterns == <<"\"display_url\":", "\"thumbnail_src\":", "\"thumbnail_url\":",
                     "property=\"og:image\" content=", "meta property=\"og:image\" content=",
                     "\"image_versions2\":{\"candidates\":[{\"url\":", "thumbnailUrl:">>

\* Lines 1184 and 1209: the "proper video URL" test.
LooksLikeVideo(url) ==
  Contains(url, ".mp4") \/ Contains(url, "video") \/ Contains(url, "scontent")

\* Lines 1179-1189: the first pattern whose capture passes the test.
FirstVideoCapture(page, patterns) ==
  LET hits == {i \in 1..Len(patterns) :
                 patterns[i] \in DOMAIN page /\ LooksLikeVideo(page[patterns[i]])}
  IN IF hits = {} THEN Null
     ELSE page[patterns[CHOOSE i \in hits : \A h \in hits : i <= h]]

Html(doc, scripts) == [doc |-> doc, scripts |-> scripts]

extractVideoFromHTML(html) ==
  LET direct == FirstVideoCapture(html.doc, IgVideoPatterns)
      t == FirstCapture(html.doc, IgThumbPatterns)
      thumbnail == IF t = Undefined THEN Null ELSE t
      inScripts == {i \in 1..Len(html.scripts) :
                      FirstVideoCapture(html.scripts[i], IgVideoPatterns) # Null}
      videoUrl == IF direct # Null THEN direct
                  ELSE IF inScripts = {} THEN Null
                  ELSE FirstVideoCapture(
                         html.scripts[CHOOSE i \in inScripts : \A h \in inScripts : i <= h],
                         IgVideoPatterns)
  IN IF ~Truthy(videoUrl) THEN JsNull
     ELSE M3("video_url", videoUrl, "thumbnail", thumbnail, "quality", "HD")

\* tryFetchWithUserAgent, tryEmbedApproach: a rejected fetch is caught by the
\* caller (lines 1034 and 1046) and counts as no result.
IgPageResult(resp) ==
  IF resp.net # "ok" THEN JsNull ELSE extractVideoFromHTML(resp.body)

IgPageResponses ==
  { NetThrow, NetBad, NetOk(Html(<<>>, <<>>)),
    NetOk(Html(M2("\"video_url\":", VidAbs, "\"display_url\":", ThumbAbs), <<>>)),
    NetOk(Html(M2("\"playback_url\":", "https://cdn.ig/clip",
                  "property=\"og:video\" content=", VidRel), <<>>)),
    NetOk(Html(M1("\"video_url\":", "https://cdn.ig/clip"),
               <<M1("\"videoUrl\":", "https://scontent.ig/clip")>>)) }

\* fetchViaPageScrape, line 1023: the User-Agent strings tried in order.
IgUserAgents == <<"Googlebot", "facebookexternalhit", "Chrome-Linux", "iPhone">>

\* fetchViaOEmbed, lines 939-962, on the oEmbed answer.
IgOEmbedVideoPatterns == <<"src=\"*.mp4\"", "\"video_url\":">>

OEmbedData(hasHtml, html, thumbnail_url) ==
  [hasHtml |-> hasHtml, html |-> html, thumbnail_url |-> thumbnail_url]

IgOEmbedVideo(data) ==
  IF data.hasHtml THEN FirstCapture(data.html, IgOEmbedVideoPatterns) ELSE Undefined

\* Line 965 is reached: the answer was not OK, or held neither a video nor a
\* thumbnail.
IgOEmbedTriesAlternative(resp) ==
  \/ resp.net = "bad"
  \/ /\ resp.net = "ok"
     /\ IgOEmbedVideo(resp.body) = Undefined
     /\ ~Truthy(resp.body.thumbnail_url)

\* What fetchViaOEmbed returns when line 965 is not reached.
IgOEmbedResult(resp) ==
  IF resp.net # "ok" THEN JsNull
  ELSE IF IgOEmbedVideo(resp.body) # Undefined
    THEN M3("video_url", IgOEmbedVideo(resp.body),
            "thumbnail", resp.body.thumbnail_url, "quality", "HD")
  ELSE M1("thumbnail", resp.body.thumbnail_url)

IgOEmbedResponses ==
  { NetThrow, NetBad,
    NetOk(OEmbedData(TRUE, M1("src=\"*.mp4\"", VidAbs), ThumbAbs)),
    NetOk(OEmbedData(TRUE, M1("\"video_url\":", VidRel), Undefined)),
    NetOk(OEmbedData(TRUE, <<>>, ThumbAbs)),
    NetOk(OEmbedData(TRUE, <<>>, Undefined)),
    NetOk(OEmbedData(FALSE, <<>>, Undefined)) }

\* fetchViaAlternativeService: the mobile-app scrape of the canonical post URL.
IgAltVideoPatterns == <<"\"video_url\":", "videoUrl:", "\"src\":\"*.mp4\"">>
IgAltThumbPatterns == <<"\"display_url\":", "\"thumbnail_url\":">>

fetchViaAlternativeService(resp) ==
  IF resp.net # "ok" THEN JsNull
  ELSE LET html == resp.body
           v == FirstCapture(html, IgAltVideoPatterns)
           t == FirstCapture(html, IgAltThumbPatterns)
       IN IF v = Undefined THEN JsNull
          ELSE M3("video_url", UnescapeIg(v),
                  "thumbnail", IF t = Undefined THEN Undefined ELSE UnescapeIg(t),
                  "quality", "HD")

IgAltResponses ==
  { NetThrow, NetBad, NetOk(<<>>),
    NetOk(M2("\"video_url\":", "https:\\/\\/x.cdn\\/video.mp4", "\"thumbnail_url\":", ThumbAbs)),
    NetOk(M1("\"src\":\"*.mp4\"", VidRel)) }

\* The post URLs the strategies build from the shortcode.
IgEmbedCaptionedUrl(shortcode) == "https://www.instagram.com/p/" \o shortcode \o "/embed/captioned/"
IgEmbedUrl(shortcode) == "https://www.instagram.com/p/" \o shortcode \o "/embed/"
IgPostUrl(shortcode) == "https://www.instagram.com/p/" \o shortcode \o "/"

-----------------------------------------------------------------------------
(* Responses of POST *)

NoResponse == [status |-> 0, success |-> FALSE, body |-> <<>>]

ErrorResponse(status, message) ==
  [status |-> status, success |-> FALSE, body |-> M1("error", message)]

\* NextResponse.json({success: true, ...videoData}): JSON.stringify drops the
\* keys whose value is undefined and keeps those whose value is null.
\* (SuccessResponseHd: a normalizer that labels every result HD.)
SuccessResponseHd(videoData) ==
  [status |-> 200, success |-> TRUE,
   body |-> [k \in {x \in DOMAIN videoData : videoData[x] # Undefined} |->
               IF k = "quality" THEN "HD" ELSE videoData[k]]]
SuccessResponse(videoData) ==
  [status |-> 200, success |-> TRUE,
   body |-> [k \in {x \in DOMAIN videoData : videoData[x] # Undefined} |-> videoData[k]]]

RateLimitedMessage == "Too many requests. Please wait a moment and try again."
UrlRequiredMessage == "URL is required"
InvalidFormatMessage == "Invalid Instagram or Facebook URL format"
FbNotFoundMessage == "Unable to fetch Facebook video. The post may be private or unavailable."
IgNotFoundMessage == "Unable to fetch video. The post may be private or unavailable."
IgInvalidMessage == "Invalid Instagram URL"
BodyParseMessage == "Unexpected end of JSON input"

\* POST, lines 1258-1272: fetchFacebookVideo returned videoData.
PostFacebookReturn(videoData) ==
  IF ~ResultHasVideoUrl(videoData)
    THEN ErrorResponse(404, FbNotFoundMessage)
    ELSE SuccessResponse(videoData)

\* POST, lines 1273-1279: fetchFacebookVideo threw an Error with this message.
PostFacebookThrow(message) == ErrorResponse(500, message)

\* POST, lines 1298-1310: fetchInstagramData returned videoData.
PostInstagramReturn(videoData) ==
  IF ~ResultHasVideoUrl(videoData)
    THEN ErrorResponse(404, IgNotFoundMessage)
    ELSE SuccessResponse(videoData)

\* POST, lines 1311-1317: anything else thrown inside the handler.
PostThrow(message) == ErrorResponse(500, message)

-----------------------------------------------------------------------------
(* Requests *)

FbPlainUrls == {"https://www.facebook.com/reel/123", "https://www.facebook.com/u/videos/9/",
                "https://fb.watch/aB1/", "https://www.facebook.com/watch/?v=7"}
FbShareUrls == {"https://www.facebook.com/share/r/XyZ9/", "https://www.facebook.com/share/v/1a/",
                "https://www.facebook.com/share/reel/77/", "https://m.facebook.com/share/p9/"}
IgUrls == {"https://www.instagram.com/p/Cx1/", "https://www.instagram.com/reel/ABC123/",
           "https://instagram.com/reels/a_b-c/", "http://www.instagram.com/tv/T1"}
OtherUrls == {"https://example.com/v.mp4", "https://www.instagram.com/stories/u/1/",
              "instagram.com/p/abc", "https://www.facebook.com/watch?v=7"}

\* A request body: json is FALSE when request.json() rejects; url is body.url.
NoBody == [json |-> FALSE, url |-> ""]
MalformedBody == [json |-> FALSE, url |-> Undefined]
BodyWith(u) == [json |-> TRUE, url |-> u]

ShortBodies == {MalformedBody} \cup {BodyWith(u) : u \in OtherUrls \cup {Undefined, ""}}
Bodies == ShortBodies \cup {BodyWith(u) : u \in FbPlainUrls \cup FbShareUrls \cup IgUrls}

MainClient == "10.0.0.1"

\* The clock: the steps by which it advances and how far.
MaxWindows == 1
MaxNow == MaxWindows * (RATE_LIMIT_WINDOW + 2)
TickSteps == {RATE_LIMIT_WINDOW \div 2, RATE_LIMIT_WINDOW \div 2 + 1}

\* The bodies of the requests of the rate-limiter specification: answered by
\* POST without an outbound call.
RateBodies == {BodyWith(Undefined), BodyWith("https://example.com/v.mp4")}

-----------------------------------------------------------------------------
(* The handler *)

\* An outbound call: who made it, through which function, to which URL, and
\* (for an extraction strategy) what the strategy returned and its video_url.
Call(by, fn, url) == [by |-> by, fn |-> fn, url |-> url, got |-> Undefined, ret |-> JsNull]
Returned(call, r) == [call EXCEPT !.got = Get(r, "video_url"), !.ret = r]
\* A resolver strategy's call and the URL it settled on (Null: inconclusive);
\* the thumbnail probe's call and the thumbnail it found (Null: none).
Resolved(call, u) == [call EXCEPT !.got = u]

\* The AbortSignal.timeout(ms) the fetch of a call is given (0: the fetch is
\* given no signal).  The resolver's fetches carry one (lines 120, 164, 197,
\* 214, 294); those of the extraction strategies, of the thumbnail probe and
\* of the Instagram path carry none.
FetchTimeout(call) ==
  CASE call.by = "resolver" /\ call.fn = "probe" -> 8000
    [] call.by = "resolver" /\ call.fn \in {"trace-manual", "trace-follow"} -> 8000
    [] call.by = "resolver" /\ call.fn = "backend" -> 15000
    [] call.by \in {"extract", "thumbnail", "instagram"} -> 0

Respond(r) == response' = r /\ pc' = "done"

\* POST, lines 1254 and 1287-1296: where a non-empty URL is routed.
Route(url) ==
  IF isFacebookURL(url) THEN "facebook"
  ELSE IF isValidInstagramURL(url) THEN "instagram"
  ELSE "invalid"

\* The routing and the share test of every URL a request may carry, computed
\* once (the operators above are evaluated on each URL a single time).
RequestUrls == FbPlainUrls \cup FbShareUrls \cup IgUrls \cup OtherUrls
RouteOf == [u \in RequestUrls |-> Route(u)]
IsShareOf == [u \in RequestUrls |-> isFacebookShareURL(u)]
ShareIdOf == [u \in FbShareUrls |-> extractShareId(u)]

NoLocals == originalUrl' = "" /\ resolvedUrl' = "" /\ step' = 0 /\ sub' = 0

\* POST up to its first outbound call: the rate limiter, the body, routing.
PostHandler(ip, body) ==
  /\ pc = "idle"
  /\ rateLimitMap' = rateLimitAfter(rateLimitMap, ip, now)
  /\ reqIp' = ip
  /\ reqBody' = body
  /\ UNCHANGED <<awaiting, now, backendUrl, calls, result, inflight, pureCalls, reel>>
  /\ IF ~checkRateLimit(rateLimitMap, ip, now)
       THEN Respond(ErrorResponse(429, RateLimitedMessage)) /\ NoLocals
     ELSE IF ~body.json
       THEN Respond(PostThrow(BodyParseMessage)) /\ NoLocals
     ELSE IF ~Truthy(body.url)
       THEN Respond(ErrorResponse(400, UrlRequiredMessage)) /\ NoLocals
     ELSE IF RouteOf[body.url] = "facebook"
       THEN /\ response' = NoResponse
            /\ originalUrl' = body.url
            /\ resolvedUrl' = body.url
            /\ step' = 1
            /\ sub' = 0
            /\ pc' = IF IsShareOf[body.url] THEN "share_s1" ELSE "fb_pass1"
     ELSE IF RouteOf[body.url] = "invalid"
       THEN Respond(ErrorResponse(400, InvalidFormatMessage)) /\ NoLocals
     ELSE /\ response' = NoResponse
          /\ originalUrl' = "" /\ resolvedUrl' = "" /\ step' = 1 /\ sub' = 1
          /\ pc' = "ig_backend"
  /\ admittedInWindow' =
       [admittedInWindow EXCEPT ![ip] =
          IF response'.status = 429 THEN @
          ELSE IF rateLimitMap'[ip].lastReset # rateLimitMap[ip].lastReset THEN 1
          ELSE @ + 1]
  /\ windowsStarted' =
       [windowsStarted EXCEPT ![ip] =
          IF rateLimitMap'[ip].lastReset # rateLimitMap[ip].lastReset THEN @ + 1 ELSE @]

POST(ip, body) == PostHandler(ip, body) /\ UNCHANGED admittedAt

\* POST with the time of every admission written down.  Times too old to
\* share an interval of RATE_LIMIT_WINDOW with a later admission are dropped.
PostRecorded(ip, body) ==
  /\ PostHandler(ip, body)
  /\ LET recent == SelectSeq(admittedAt[ip], LAMBDA t : now - t <= RATE_LIMIT_WINDOW)
     IN admittedAt' = [admittedAt EXCEPT ![ip] =
                         IF response'.status = 429 THEN recent ELSE Append(recent, now)]

\* fetchFacebookVideo, line 345 and line 380: the two strategy lists.
\* (FbMethodsSwapped: the first two strategies exchanged; FbMethodsWithoutMirror:
\* the list cut short.)
FbMethodsWithoutMirror == <<"fetchViaFacebookAPI", "fetchViaCobalAPI", "fetchViaFacebookDirect">>
FbMethodsSwapped == <<"fetchViaCobalAPI", "fetchViaFacebookAPI", "fetchViaFacebookDirect",
                      "fetchViaSnapSave">>
FbMethods == <<"fetchViaFacebookAPI", "fetchViaCobalAPI", "fetchViaFacebookDirect",
               "fetchViaSnapSave">>
\* (FbSecondPassMethodsSwapped: the two strategies exchanged.)
FbSecondPassMethodsSwapped == <<"fetchViaSnapSave", "fetchViaCobalAPI">>
FbSecondPassMethods == <<"fetchViaCobalAPI", "fetchViaSnapSave">>

FbResponsesOf(method) ==
  CASE method = "fetchViaFacebookAPI" -> FbApiResponses
    [] method = "fetchViaCobalAPI" -> CobaltResponses
    [] method = "fetchViaFacebookDirect" -> FbDirectResponses
    [] method = "fetchViaSnapSave" -> SnapSaveResponses

FbRun(method, resp) ==
  CASE method = "fetchViaFacebookAPI" -> fetchViaFacebookAPI(resp)
    [] method = "fetchViaCobalAPI" -> fetchViaCobalAPI(resp)
    [] method = "fetchViaFacebookDirect" -> fetchViaFacebookDirect(resp)
    [] method = "fetchViaSnapSave" -> fetchViaSnapSave(resp)

\* Every strategy's result on every answer, computed once.
FbResultOf ==
  [m \in {FbMethods[i] : i \in 1..Len(FbMethods)} |->
     [resp \in FbResponsesOf(m) |-> FbRun(m, resp)]]
FbThumbnailOf == [resp \in FbThumbnailResponses |-> extractFacebookThumbnail(resp)]
TraceResultOf == [u \in FbShareUrls |-> [r \in TraceResponses |-> ResolveByTrace(u, r)]]
TraceFollowsOf == [r \in TraceResponses |-> TraceFollows(r)]
ConstructedUrlOf ==
  [u \in FbShareUrls |->
     IF ShareIdOf[u] = Null THEN Null
     ELSE IF base62ToDecimal(ShareIdOf[u]) = Thrown THEN Thrown
     ELSE ConstructedReelUrl(base62ToDecimal(ShareIdOf[u]))]

\* Line 284: `if (backendUrl)`.
\* (BackendConfiguredAlways: strategy 4 entered whatever BACKEND_URL is.)
BackendConfiguredAlways == TRUE
BackendConfigured == Truthy(backendUrl)

\* (ResolverFallsThrough: a strategy that keeps its URL but goes on to the
\* next strategy instead of returning.)
ResolverFallsThrough(resolved) ==
  /\ resolvedUrl' = resolved
  /\ pc' = "share_s4"
  /\ step' = 1

\* fetchFacebookVideo, lines 334-342: the resolver returned `resolved`.
ResolverReturns(resolved) ==
  /\ resolvedUrl' = resolved
  /\ pc' = "fb_pass1"
  /\ step' = 1

\* Every strategy awaits its outbound call (lines 355, 382, 842, 1032, 1042
\* and each `await fetch`): where its result is used, the call has settled.
CallSettles == awaiting' = <<>>

\* Resolver strategy 1: the delegated-resolver probe of the share URL.
ShareS1 ==
  /\ pc = "share_s1"
  /\ \E resp \in CobaltProbeResponses :
       /\ calls' = Append(calls, Resolved(Call("resolver", "probe", originalUrl),
                                          IF CobaltCanHandle(resp) THEN originalUrl ELSE Null))
       /\ IF CobaltCanHandle(resp) THEN ResolverReturns(originalUrl)
          ELSE /\ pc' = IF ShareIdOf[originalUrl] # Null THEN "share_s2" ELSE "share_s3"
               /\ UNCHANGED <<resolvedUrl, step>>
  /\ UNCHANGED <<now, rateLimitMap, reqIp, reqBody, originalUrl, sub, result, response, backendUrl, admittedInWindow, windowsStarted, inflight, admittedAt, pureCalls, reel>>
  /\ CallSettles

\* Resolver strategy 2: decode the share ID, probe the constructed URL.
ShareS2 ==
  /\ pc = "share_s2"
  /\ LET constructedUrl == ConstructedUrlOf[originalUrl]
     IN IF constructedUrl = Thrown
          THEN /\ pc' = "share_s3"
               /\ UNCHANGED <<calls, resolvedUrl, step>>
          ELSE \E resp \in CobaltProbeResponses :
                 /\ calls' = Append(calls, Resolved(Call("resolver", "probe", constructedUrl),
                                                    IF CobaltCanHandle(resp) THEN constructedUrl
                                                    ELSE Null))
                 /\ IF CobaltCanHandle(resp) THEN ResolverReturns(constructedUrl)
                    ELSE pc' = "share_s3" /\ UNCHANGED <<resolvedUrl, step>>
  /\ UNCHANGED <<now, rateLimitMap, reqIp, reqBody, originalUrl, sub, result, response, backendUrl, admittedInWindow, windowsStarted, inflight, admittedAt, pureCalls, reel>>
  /\ CallSettles

\* Resolver strategy 3: redirect tracing; then strategy 4's guard (line 284)
\* and strategy 5 (line 318) when no backend is configured.
ShareS3 ==
  /\ pc = "share_s3"
  /\ \E r \in TraceResponses :
       LET found == TraceResultOf[originalUrl][r]
       IN /\ calls' = calls \o
                      (IF TraceFollowsOf[r]
                         THEN <<Resolved(Call("resolver", "trace-manual", originalUrl), Null),
                                Resolved(Call("resolver", "trace-follow", originalUrl), found)>>
                         ELSE <<Resolved(Call("resolver", "trace-manual", originalUrl), found)>>)
          /\ IF found # Null THEN ResolverReturns(found)
             ELSE IF BackendConfigured
               THEN pc' = "share_s4" /\ UNCHANGED <<resolvedUrl, step>>
             ELSE ResolverReturns(originalUrl)
  /\ UNCHANGED <<now, rateLimitMap, reqIp, reqBody, originalUrl, sub, result, response, backendUrl, admittedInWindow, windowsStarted, inflight, admittedAt, pureCalls, reel>>
  /\ CallSettles

\* Resolver strategy 4: the automation backend; then strategy 5.
ShareS4 ==
  /\ pc = "share_s4"
  /\ \E resp \in BackendResolveResponses :
       LET found == ResolveByBackend(resp)
       IN /\ calls' = Append(calls, Resolved(Call("resolver", "backend", originalUrl), found))
          /\ ResolverReturns(IF found # Null THEN found ELSE originalUrl)
  /\ UNCHANGED <<now, rateLimitMap, reqIp, reqBody, originalUrl, sub, result, response, backendUrl, admittedInWindow, windowsStarted, inflight, admittedAt, pureCalls, reel>>
  /\ CallSettles

\* Lines 356 and 383: `result && result.video_url`.
FbAccepts(r) == ResultHasVideoUrl(r)

\* Lines 360 and 386: `!result.thumbnail`.
FbNeedsThumbnail(r) == ~Truthy(Get(r, "thumbnail"))

\* One iteration of a pass: run methods[step] against url, then either keep
\* its result (going through the thumbnail probe when it has no thumbnail),
\* advance, or leave the loop through `exhausted`.
FbIteration(methods, url, nextPc, nextStep, exhaustedResponse) ==
  \E resp \in FbResponsesOf(methods[step]) :
    LET r == FbResultOf[methods[step]][resp]
    IN /\ calls' = Append(calls, Returned(Call("extract", methods[step], url), r))
       /\ IF FbAccepts(r)
            THEN /\ result' = r
                 /\ step' = step
                 /\ IF FbNeedsThumbnail(r)
                      THEN pc' = "fb_thumb" /\ response' = response
                      ELSE Respond(PostFacebookReturn(r))
          ELSE IF step < Len(methods)
            THEN /\ step' = step + 1
                 /\ UNCHANGED <<pc, result, response>>
          ELSE IF nextPc # "done"
            THEN /\ pc' = nextPc
                 /\ step' = nextStep
                 /\ UNCHANGED <<result, response>>
          ELSE /\ Respond(exhaustedResponse)
               /\ UNCHANGED <<result, step>>

\* fetchFacebookVideo, lines 353-377: the first pass, against the resolved URL.
FbFirstPass ==
  /\ pc = "fb_pass1"
  /\ FbIteration(FbMethods, resolvedUrl,
                 IF IsShareOf[originalUrl] /\ originalUrl # resolvedUrl
                   THEN "fb_pass2" ELSE "done",
                 1, PostFacebookThrow(FbNotFoundMessage))
  /\ UNCHANGED <<now, rateLimitMap, reqIp, reqBody, originalUrl, resolvedUrl, sub, backendUrl, admittedInWindow, windowsStarted, inflight, admittedAt, pureCalls, reel>>
  /\ CallSettles

\* fetchFacebookVideo, lines 380-402: the second pass, against the original URL.
FbSecondPass ==
  /\ pc = "fb_pass2"
  /\ FbIteration(FbSecondPassMethods, originalUrl, "done", 1,
                 PostFacebookThrow(FbNotFoundMessage))
  /\ UNCHANGED <<now, rateLimitMap, reqIp, reqBody, originalUrl, resolvedUrl, sub, backendUrl, admittedInWindow, windowsStarted, inflight, admittedAt, pureCalls, reel>>
  /\ CallSettles

\* Lines 362-368 and 387-393: the thumbnail probe, then the result is returned.
FbThumbnail ==
  /\ pc = "fb_thumb"
  /\ \E resp \in FbThumbnailResponses :
       LET thumbnailResult == FbThumbnailOf[resp]
           final == IF Truthy(thumbnailResult)
                      THEN Put(result, "thumbnail", thumbnailResult)
                      ELSE result
       IN /\ calls' = Append(calls, Resolved(Call("thumbnail", "extractFacebookThumbnail",
                                                originalUrl), thumbnailResult))
          /\ result' = final
          /\ Respond(PostFacebookReturn(final))
  /\ UNCHANGED <<now, rateLimitMap, reqIp, reqBody, originalUrl, resolvedUrl, step, sub, backendUrl, admittedInWindow, windowsStarted, inflight, admittedAt, pureCalls, reel>>
  /\ CallSettles

\* fetchInstagramData, line 834: the approaches, in order.
\* (IgApproachesScrapeFirst: the page scrape before the embed endpoint.)
IgApproachesScrapeFirst == <<"fetchViaPageScrape", "fetchViaInstagramAPI", "fetchViaOEmbed">>
IgApproaches == <<"fetchViaInstagramAPI", "fetchViaPageScrape", "fetchViaOEmbed">>

IgBackendResultOf == [resp \in IgBackendResponses |-> IgBackendResult(resp)]
IgApiResultOf == [resp \in IgApiResponses |-> fetchViaInstagramAPI(resp)]
IgPageResultOf == [resp \in IgPageResponses |-> IgPageResult(resp)]
IgOEmbedResultOf == [resp \in IgOEmbedResponses |-> IgOEmbedResult(resp)]
IgOEmbedAlternativeOf == [resp \in IgOEmbedResponses |-> IgOEmbedTriesAlternative(resp)]
IgAltResultOf == [resp \in IgAltResponses |-> fetchViaAlternativeService(resp)]
ShortcodeOf == [u \in IgUrls |-> extractShortcode(u)]
EncodedOf == [u \in IgUrls |-> encodeURIComponent(u)]

\* Lines 843, 1033 and 1043: `result && result.video_url`.
IgAccepts(r) == ResultHasVideoUrl(r)

\* Lines 815-822: the return inside the try block ends fetchInstagramData.
\* (IgBackendReturnsNever: the fallback methods run whatever the backend
\* answered.)
IgBackendReturnsNever(r) == FALSE
IgBackendReturns(r) == r # JsNull

\* fetchInstagramData, the Puppeteer backend first (lines 804-832).
IgBackend ==
  /\ pc = "ig_backend"
  /\ \E resp \in IgBackendResponses :
       LET r == IgBackendResultOf[resp]
           target == IF Truthy(backendUrl) THEN backendUrl ELSE DefaultBackendUrl
       IN /\ calls' = Append(calls, Returned(Call("instagram", "backend",
                                                target \o "/api/reel?url=" \o EncodedOf[reqUrl]), r))
          /\ IF IgBackendReturns(r)
               THEN result' = r /\ Respond(PostInstagramReturn(r)) /\ UNCHANGED <<step, sub>>
             ELSE IF ShortcodeOf[reqUrl] = Null
               THEN Respond(PostThrow(IgInvalidMessage)) /\ UNCHANGED <<result, step, sub>>
             ELSE /\ pc' = "ig_chain"
                  /\ step' = 1
                  /\ sub' = 1
                  /\ UNCHANGED <<result, response>>
  /\ UNCHANGED <<now, rateLimitMap, reqIp, reqBody, originalUrl, resolvedUrl, backendUrl, admittedInWindow, windowsStarted, inflight, admittedAt, pureCalls, reel>>
  /\ CallSettles

\* Lines 840-850: approach `step` returned r (JsNull when it returned null
\* or threw).
IgApproachReturns(r) ==
  IF IgAccepts(r)
    THEN result' = r /\ Respond(PostInstagramReturn(r)) /\ UNCHANGED <<step, sub>>
  ELSE IF step < Len(IgApproaches)
    THEN step' = step + 1 /\ sub' = 1 /\ UNCHANGED <<pc, result, response>>
  ELSE Respond(PostThrow(IgNotFoundMessage)) /\ UNCHANGED <<result, step, sub>>

\* fetchViaInstagramAPI(shortcode): the embed endpoint.
IgEmbedApi ==
  /\ pc = "ig_chain"
  /\ IgApproaches[step] = "fetchViaInstagramAPI"
  /\ \E resp \in IgApiResponses :
       /\ calls' = Append(calls, Returned(Call("instagram", "fetchViaInstagramAPI",
                                              IgEmbedCaptionedUrl(ShortcodeOf[reqUrl])),
                                         IgApiResultOf[resp]))
       /\ IgApproachReturns(IgApiResultOf[resp])
  /\ UNCHANGED <<now, rateLimitMap, reqIp, reqBody, originalUrl, resolvedUrl, backendUrl, admittedInWindow, windowsStarted, inflight, admittedAt, pureCalls, reel>>
  /\ CallSettles

\* fetchViaPageScrape(url), lines 1030-1037: one User-Agent per step.
IgPageScrape ==
  /\ pc = "ig_chain"
  /\ IgApproaches[step] = "fetchViaPageScrape"
  /\ sub \in 1..Len(IgUserAgents)
  /\ \E resp \in IgPageResponses :
       /\ calls' = Append(calls, Returned(Call("instagram",
                                              "tryFetchWithUserAgent:" \o IgUserAgents[sub],
                                              reqUrl),
                                         IgPageResultOf[resp]))
       /\ IF IgAccepts(IgPageResultOf[resp])
            THEN IgApproachReturns(IgPageResultOf[resp])
            ELSE sub' = sub + 1 /\ UNCHANGED <<pc, step, result, response>>
  /\ UNCHANGED <<now, rateLimitMap, reqIp, reqBody, originalUrl, resolvedUrl, backendUrl, admittedInWindow, windowsStarted, inflight, admittedAt, pureCalls, reel>>
  /\ CallSettles

\* fetchViaPageScrape(url), lines 1040-1049: the embed attempt after the loop.
IgPageScrapeEmbed ==
  /\ pc = "ig_chain"
  /\ IgApproaches[step] = "fetchViaPageScrape"
  /\ sub = Len(IgUserAgents) + 1
  /\ \E resp \in IgPageResponses :
       /\ calls' = Append(calls, Returned(Call("instagram", "tryEmbedApproach",
                                              IgEmbedUrl(ShortcodeOf[reqUrl])),
                                         IgPageResultOf[resp]))
       /\ IgApproachReturns(IF IgAccepts(IgPageResultOf[resp]) THEN IgPageResultOf[resp] ELSE JsNull)
  /\ UNCHANGED <<now, rateLimitMap, reqIp, reqBody, originalUrl, resolvedUrl, backendUrl, admittedInWindow, windowsStarted, inflight, admittedAt, pureCalls, reel>>
  /\ CallSettles

\* fetchViaOEmbed(url), lines 931-962: the oEmbed endpoint.
IgOEmbed ==
  /\ pc = "ig_chain"
  /\ IgApproaches[step] = "fetchViaOEmbed"
  /\ sub = 1
  /\ \E resp \in IgOEmbedResponses :
       /\ calls' = Append(calls, Returned(Call("instagram", "fetchViaOEmbed", reqUrl),
                                         IF IgOEmbedAlternativeOf[resp] THEN JsNull
                                         ELSE IgOEmbedResultOf[resp]))
       /\ IF IgOEmbedAlternativeOf[resp]
            THEN sub' = 2 /\ UNCHANGED <<pc, step, result, response>>
            ELSE IgApproachReturns(IgOEmbedResultOf[resp])
  /\ UNCHANGED <<now, rateLimitMap, reqIp, reqBody, originalUrl, resolvedUrl, backendUrl, admittedInWindow, windowsStarted, inflight, admittedAt, pureCalls, reel>>
  /\ CallSettles

\* fetchViaOEmbed(url), line 965: fetchViaAlternativeService(url).
IgAlternative ==
  /\ pc = "ig_chain"
  /\ IgApproaches[step] = "fetchViaOEmbed"
  /\ sub = 2
  /\ \E resp \in IgAltResponses :
       /\ calls' = Append(calls, Returned(Call("instagram", "fetchViaAlternativeService",
                                              IgPostUrl(ShortcodeOf[reqUrl])),
                                         IgAltResultOf[resp]))
       /\ IgApproachReturns(IgAltResultOf[resp])
  /\ UNCHANGED <<now, rateLimitMap, reqIp, reqBody, originalUrl, resolvedUrl, backendUrl, admittedInWindow, windowsStarted, inflight, admittedAt, pureCalls, reel>>
  /\ CallSettles

\* The handler stands before a statement that makes an outbound call: every
\* position of the resolver and of the two chains, but for resolver strategy
\* 2 when the decode threw (line 179: nothing is fetched).
MakesCall ==
  /\ pc \notin {"idle", "done"}
  /\ pc = "share_s2" => ConstructedUrlOf[originalUrl] # Thrown

\* The call about to be issued: the position of the chain and the number of
\* calls that have settled before it.
PendingCall == [pc |-> pc, step |-> step, sub |-> sub, after |-> Len(calls)]

\* `await`: the handler runs on only when the promise it waits for has
\* settled, so the next call is issued with none outstanding.
\* (MayIssueUnawaited: the next call is issued without awaiting the last.)
MayIssueUnawaited == Len(awaiting) < 2
MayIssue == awaiting = <<>>

\* The handler issues the outbound call of its position and awaits it.
Issue ==
  /\ MakesCall
  /\ MayIssue
  /\ awaiting' = Append(awaiting, PendingCall)
  /\ UNCHANGED <<now, rateLimitMap, pc, reqIp, reqBody, originalUrl, resolvedUrl, step, sub,
                 result, calls, response, backendUrl, admittedInWindow, windowsStarted,
                 inflight, admittedAt, pureCalls, reel>>

\* The call the handler awaits has settled (or its position makes none).
CallLanded == MakesCall => awaiting # <<>>

\* The response has been sent: the handler's locals are gone.
Finish ==
  /\ pc = "done"
  /\ pc' = "idle"
  /\ reqIp' = "" /\ reqBody' = NoBody /\ originalUrl' = "" /\ resolvedUrl' = ""
  /\ step' = 0 /\ sub' = 0 /\ result' = JsNull /\ calls' = <<>> /\ response' = NoResponse
  /\ UNCHANGED <<awaiting, now, rateLimitMap, backendUrl, admittedInWindow, windowsStarted, inflight, admittedAt, pureCalls, reel>>

\* Time passes.
Tick ==
  /\ \E d \in TickSteps :
       /\ now + d <= MaxNow
       /\ now' = now + d
  /\ UNCHANGED <<awaiting, rateLimitMap, pc, reqIp, reqBody, originalUrl, resolvedUrl, step, sub,
                 result, calls, response, backendUrl, admittedInWindow, windowsStarted, inflight, admittedAt, pureCalls, reel>>

-----------------------------------------------------------------------------
(* Handlers running side by side *)

\* POST is an async function: the event loop runs one handler until its next
\* await and may then run any other.  Up to MaxInFlight handlers are under
\* way; each is followed from line 1232 to its answer, with a body that POST
\* answers without an outbound call.
MaxInFlight == 2
Slots == 1..MaxInFlight

NoRequest == [at |-> "none", ip |-> "", record |-> NoRecord, t |-> 0, status |-> 0]

\* A handler between the read of line 10 and the return of checkRateLimit:
\* lines 9-22 hold no await, the handler cannot be suspended there.
InSyncSegment(r) == r.at = "read"

\* Run to completion: a handler steps only when no other handler is inside
\* a synchronous segment.
\* (MayStepPreemptive: handlers that could be suspended anywhere.)
MayStepPreemptive(slot) == TRUE
MayStep(slot) == \A other \in Slots \ {slot} : ~InSyncSegment(inflight[other])

\* Lines 1232-1235 and 9-10: the handler starts, takes the time and reads
\* the client's record.
ConcRead(slot, ip) ==
  /\ pc = "idle"
  /\ inflight[slot].at = "none"
  /\ MayStep(slot)
  /\ inflight' = [inflight EXCEPT ![slot] =
                    [at |-> "read", ip |-> ip, record |-> rateLimitMap[ip], t |-> now,
                     status |-> 0]]
  /\ UNCHANGED <<awaiting, now, rateLimitMap, pc, reqIp, reqBody, originalUrl, resolvedUrl, step, sub,
                 result, calls, response, backendUrl, admittedInWindow, windowsStarted, admittedAt, pureCalls, reel>>

\* Lines 12-22 and 1235-1242: the handler acts on the record it read, is
\* answered 429 or goes on to await request.json().  The locals of
\* checkRateLimit are gone once it returns.
ConcDecide(slot) ==
  /\ inflight[slot].at = "read"
  /\ MayStep(slot)
  /\ LET r == inflight[slot]
         admitted == RateFresh(r.record, r.t) \/ ~RateAtLimit(r.record)
         written == IF RateFresh(r.record, r.t) THEN [count |-> 1, lastReset |-> r.t]
                    ELSE IF RateAtLimit(r.record) THEN rateLimitMap[r.ip]
                    ELSE [count |-> r.record.count + 1, lastReset |-> r.record.lastReset]
     IN /\ rateLimitMap' = [rateLimitMap EXCEPT ![r.ip] = written]
        /\ inflight' = [inflight EXCEPT ![slot] =
                          IF admitted THEN [NoRequest EXCEPT !.at = "parsing", !.ip = r.ip]
                          ELSE [NoRequest EXCEPT !.at = "answered", !.ip = r.ip,
                                                 !.status = 429]]
        /\ admittedInWindow' =
             [admittedInWindow EXCEPT ![r.ip] =
                IF ~admitted THEN @
                ELSE IF RateFresh(r.record, r.t) THEN 1
                ELSE @ + 1]
        /\ windowsStarted' =
             [windowsStarted EXCEPT ![r.ip] =
                IF RateFresh(r.record, r.t) THEN @ + 1 ELSE @]
  /\ UNCHANGED <<awaiting, now, pc, reqIp, reqBody, originalUrl, resolvedUrl, step, sub,
                 result, calls, response, backendUrl, admittedAt, pureCalls, reel>>

\* Lines 1242-1247: request.json() resolves, the body has no url.
ConcParse(slot) ==
  /\ inflight[slot].at = "parsing"
  /\ MayStep(slot)
  /\ inflight' = [inflight EXCEPT ![slot].at = "answered", ![slot].status = 400]
  /\ UNCHANGED <<awaiting, now, rateLimitMap, pc, reqIp, reqBody, originalUrl, resolvedUrl, step, sub,
                 result, calls, response, backendUrl, admittedInWindow, windowsStarted, admittedAt, pureCalls, reel>>

\* The answer has been sent.
ConcFinish(slot) ==
  /\ inflight[slot].at = "answered"
  /\ MayStep(slot)
  /\ inflight' = [inflight EXCEPT ![slot] = NoRequest]
  /\ UNCHANGED <<awaiting, now, rateLimitMap, pc, reqIp, reqBody, originalUrl, resolvedUrl, step, sub,
                 result, calls, response, backendUrl, admittedInWindow, windowsStarted, admittedAt, pureCalls, reel>>

-----------------------------------------------------------------------------
(* The Puppeteer backend: server.js, GET /api/reel *)

\* req.query.url is undefined when the parameter is missing, a string, or an
\* array when the parameter is given twice.
QueryArray == "<array>"
IsJsString(v) == v \notin {Undefined, Null, QueryArray}

\* (validateInstagramUrlUnanchored: the patterns without their ^ anchor.)
validateInstagramUrlUnanchored(url) ==
  /\ Truthy(url)
  /\ IsJsString(url)
  /\ \E kind \in IgValidKinds : ShortcodeMatchPos(url, kind) > 0

\* Lines 43-56.  The optional "/" that ends each pattern changes no verdict.
validateInstagramUrl(url) ==
  /\ Truthy(url)
  /\ IsJsString(url)
  /\ \E p \in IgValidPrefixes :
       /\ MatchAt(url, p, 1)
       /\ RunEnd(url, Len(p) + 1, WordDashChars) >= Len(p) + 1

NoRes == [status |-> 0, body |-> JsNull]
ReelJson(status, body) == [status |-> status, body |-> body]
ReelFailure(status, message) ==
  ReelJson(status, M2("success", JsFalse, "message", message))

ReelLimitedMessage == "Too many requests, please try again later."
ReelMissingMessage == "Missing ?url parameter"
ReelInvalidMessage ==
  "Invalid Instagram URL. Please provide a valid Reel, Post, or IGTV URL."
ReelNotFoundMessage ==
  "Video not found. The post may be private, unavailable, or not contain a video."
ReelInvalidVideoMessage == "Invalid video URL extracted"

NoReel(env) ==
  [at |-> "idle", url |-> Undefined, limited |-> FALSE, browser |-> "none",
   launches |-> 0, page |-> JsNull, res |-> NoRes, env |-> env]

\* What the loaded page holds when page.evaluate runs (dom), and its video
\* element once waitForSelector has resolved (late; JsNull when no video
\* element ever appears and waitForSelector times out).
ReelElement(src, currentSrc) == M2("src", src, "currentSrc", currentSrc)
ReelPage(dom, late) == [dom |-> dom, late |-> late]

ReelPages ==
  { ReelPage(M1("video.src", VidAbs), JsNull),
    ReelPage(M2("video.src", "", "source.src", VidSd), JsNull),
    ReelPage(M2("video.src", VidBlob, "og:video", VidAbs), JsNull),
    ReelPage(M2("\"video_url\":", "https://v.ig/a.mp4?x=1" \o Backslash \o "u0026y=2",
                "\"playback_url\":", VidSd), JsNull),
    ReelPage(M1("\"playback_url\":", VidAbs), JsNull),
    ReelPage(M1("\"src\":", VidRel), JsNull),
    ReelPage(M2("og:video", "", "og:video:secure_url", VidAbs), JsNull),
    ReelPage(M1("video.src", ""), ReelElement(VidAbs, VidAbs)),
    ReelPage(M1("video.src", ""), ReelElement("", VidBlob)),
    ReelPage(M1("video.src", ""), ReelElement("", "")),
    ReelPage(JsNull, ReelElement(VidBlob, VidBlob)),
    ReelPage(JsNull, JsNull) }

\* The extraction methods of lines 126-193, in order; a script capture has
\* its & unescaped.
ReelMethods ==
  <<[key |-> "video.src", method |-> "direct-video-tag", script |-> FALSE],
    [key |-> "source.src", method |-> "video-source-tag", script |-> FALSE],
    [key |-> "\"video_url\":", method |-> "script-video-url", script |-> TRUE],
    [key |-> "\"playback_url\":", method |-> "script-playback-url", script |-> TRUE],
    [key |-> "\"src\":", method |-> "script-src", script |-> TRUE],
    [key |-> "og:video", method |-> "og-video-meta", script |-> FALSE],
    [key |-> "og:video:secure_url", method |-> "og-video-secure-meta", script |-> FALSE]>>

UnescapeU0026(raw) == ReplaceAll(raw, Backslash \o "u0026", "&")

\* Lines 126-193: the first method whose element or pattern is there with a
\* non-empty value; JsNull when there is none.
ReelVideoData(dom) ==
  LET hits == {i \in 1..Len(ReelMethods) : Truthy(Get(dom, ReelMethods[i].key))}
  IN IF hits = {} THEN JsNull
     ELSE LET m == ReelMethods[CHOOSE i \in hits : \A h \in hits : i <= h]
              raw == dom[m.key]
          IN M2("videoUrl", IF m.script THEN UnescapeU0026(raw) ELSE raw,
                "method", m.method)

\* Line 203: video.src || video.currentSrc
ReelAlternativeUrl(late) ==
  IF Truthy(Get(late, "src")) THEN late["src"] ELSE Get(late, "currentSrc")

ReelSuccess(videoUrl, method) ==
  ReelJson(200, M3("success", JsTrue, "videoUrl", videoUrl, "method", method))

\* Lines 245-262: the message chosen from error.message, and error.message
\* itself in development only.
ReelErrors == {"Navigation timeout of 30000 ms exceeded", "net::ERR_NAME_NOT_RESOLVED",
               "Protocol error (Target.createTarget)", "Failed to launch the browser process"}

ReelErrorMessage(error) ==
  IF Contains(error, "Navigation timeout")
    THEN "Request timed out. The Instagram page took too long to load."
  ELSE IF Contains(error, "net::ERR_")
    THEN "Network error. Please check the URL and try again."
  ELSE IF Contains(error, "Protocol error")
    THEN "Browser error. Please try again."
  ELSE "An error occurred while processing the request"

ReelCaught(error, env) ==
  ReelJson(500, M3("success", JsFalse, "message", ReelErrorMessage(error),
                   "error", IF env = "development" THEN error ELSE Undefined))

ReelQueries ==
  {Undefined, "", QueryArray, "https://example.com", "instagram.com/p/abc",
   "https://www.instagram.com/stories/u/1/", "https://www.facebook.com/share/r/abc/",
   "https://www.instagram.com/reel/XXXXXXXXX/", "http://instagram.com/p/Cx1"}

\* Lines 21-30 and 59-77: the limiter of express-rate-limit answers 429 on
\* its own count, which is not this file's; a request it lets through has
\* its url parameter checked, and with a valid one goes on to launch a
\* browser.  A return inside the try still runs the finally block.
ReelGet(url, limited) ==
  /\ reel.at = "idle"
  /\ reel' = [reel EXCEPT
       !.url = url,
       !.limited = limited,
       !.res = IF limited THEN ReelFailure(429, ReelLimitedMessage)
               ELSE IF ~Truthy(url) THEN ReelFailure(400, ReelMissingMessage)
               ELSE IF ~validateInstagramUrl(url) THEN ReelFailure(400, ReelInvalidMessage)
               ELSE NoRes,
       !.at = IF limited THEN "done"
              ELSE IF ~Truthy(url) \/ ~validateInstagramUrl(url) THEN "finally"
              ELSE "launch"]
  /\ UNCHANGED <<awaiting, now, rateLimitMap, pc, reqIp, reqBody, originalUrl, resolvedUrl, step, sub,
                 result, calls, response, backendUrl, admittedInWindow, windowsStarted,
                 inflight, admittedAt, pureCalls>>

\* Lines 82-100: puppeteer.launch resolves with a browser or rejects.
ReelLaunch(error) ==
  /\ reel.at = "launch"
  /\ reel' = IF error = Null
               THEN [reel EXCEPT !.browser = "open", !.launches = @ + 1, !.at = "navigate"]
               ELSE [reel EXCEPT !.res = ReelCaught(error, reel.env), !.at = "finally"]
  /\ UNCHANGED <<awaiting, now, rateLimitMap, pc, reqIp, reqBody, originalUrl, resolvedUrl, step, sub,
                 result, calls, response, backendUrl, admittedInWindow, windowsStarted,
                 inflight, admittedAt, pureCalls>>

\* Lines 102-123: newPage, the page set-up, goto and the wait; any of them
\* may reject.
ReelNavigate(page, error) ==
  /\ reel.at = "navigate"
  /\ reel' = IF error = Null
               THEN [reel EXCEPT !.page = page, !.at = "evaluate"]
               ELSE [reel EXCEPT !.res = ReelCaught(error, reel.env), !.at = "finally"]
  /\ UNCHANGED <<awaiting, now, rateLimitMap, pc, reqIp, reqBody, originalUrl, resolvedUrl, step, sub,
                 result, calls, response, backendUrl, admittedInWindow, windowsStarted,
                 inflight, admittedAt, pureCalls>>

\* (ReelUrlAccepted: the startsWith check of line 232.)
ReelUrlAccepted(videoUrl) == MatchAt(videoUrl, "http", 1)

\* Lines 126-237: page.evaluate, then the answer when a video URL was found.
ReelEvaluate(error) ==
  /\ reel.at = "evaluate"
  /\ LET videoData == ReelVideoData(reel.page.dom)
     IN reel' =
          IF error # Null
            THEN [reel EXCEPT !.res = ReelCaught(error, reel.env), !.at = "finally"]
          ELSE IF ~Truthy(Get(videoData, "videoUrl"))
            THEN [reel EXCEPT !.at = "alternative"]
          ELSE IF ~ReelUrlAccepted(videoData["videoUrl"])
            THEN [reel EXCEPT !.res = ReelFailure(404, ReelInvalidVideoMessage),
                              !.at = "finally"]
          ELSE [reel EXCEPT !.res = ReelSuccess(videoData["videoUrl"], videoData["method"]),
                            !.at = "finally"]
  /\ UNCHANGED <<awaiting, now, rateLimitMap, pc, reqIp, reqBody, originalUrl, resolvedUrl, step, sub,
                 result, calls, response, backendUrl, admittedInWindow, windowsStarted,
                 inflight, admittedAt, pureCalls>>

\* Lines 195-223: the wait for a video element and the second look at it; a
\* rejection in there is caught at line 214 and ends in the 404.
ReelAlternative(rejects) ==
  /\ reel.at = "alternative"
  /\ LET late == reel.page.late
         alternativeVideoUrl == ReelAlternativeUrl(late)
     IN reel' =
          IF rejects \/ late = JsNull \/ ~Truthy(alternativeVideoUrl)
            THEN [reel EXCEPT !.res = ReelFailure(404, ReelNotFoundMessage), !.at = "finally"]
            ELSE [reel EXCEPT
                    !.res = ReelSuccess(alternativeVideoUrl, "alternative-video-element"),
                    !.at = "finally"]
  /\ UNCHANGED <<awaiting, now, rateLimitMap, pc, reqIp, reqBody, originalUrl, resolvedUrl, step, sub,
                 result, calls, response, backendUrl, admittedInWindow, windowsStarted,
                 inflight, admittedAt, pureCalls>>

\* Lines 264-275: the finally block closes the browser when there is one; a
\* rejection of close is caught and logged.
\* (ReelFinallySkipped: a handler that returns without the finally block.)
ReelFinallySkipped(closeRejects) ==
  /\ reel.at = "finally"
  /\ reel' = [reel EXCEPT !.at = "done"]
  /\ UNCHANGED <<awaiting, now, rateLimitMap, pc, reqIp, reqBody, originalUrl, resolvedUrl, step, sub,
                 result, calls, response, backendUrl, admittedInWindow, windowsStarted,
                 inflight, admittedAt, pureCalls>>
ReelFinally(closeRejects) ==
  /\ reel.at = "finally"
  /\ reel' = [reel EXCEPT
       !.browser = IF reel.browser = "none" THEN "none"
                   ELSE IF closeRejects THEN "close-failed" ELSE "closed",
       !.at = "done"]
  /\ UNCHANGED <<awaiting, now, rateLimitMap, pc, reqIp, reqBody, originalUrl, resolvedUrl, step, sub,
                 result, calls, response, backendUrl, admittedInWindow, windowsStarted,
                 inflight, admittedAt, pureCalls>>

\* The handler has returned; the next request finds nothing of it.
ReelDone ==
  /\ reel.at = "done"
  /\ reel' = NoReel(reel.env)
  /\ UNCHANGED <<awaiting, now, rateLimitMap, pc, reqIp, reqBody, originalUrl, resolvedUrl, step, sub,
                 result, calls, response, backendUrl, admittedInWindow, windowsStarted,
                 inflight, admittedAt, pureCalls>>

-----------------------------------------------------------------------------
(* Pure functions called on their own *)

\* base62ToDecimal on identifiers of up to MaxIdLen characters drawn from
\* both ends of the alphabet and from outside it, and on a few more: a
\* letter in its other case, and longer identifiers, of which eleven
\* characters and more decode to values beyond 64 bits.
MaxIdLen == 2
Base62InputChars == {"0", "a", "Z", "_"}
MoreShareIds == {"z", "9zA", "1a2B3c4D5e", "ZZZZZZZZZZZ", "ZZZZZ_ZZZZZZ"}

RECURSIVE StringsUpTo(_, _)
StringsUpTo(chars, n) ==
  IF n = 0 THEN {""}
  ELSE LET shorter == StringsUpTo(chars, n - 1)
       IN shorter \cup {s \o c : s \in shorter, c \in chars}

Base62Inputs == StringsUpTo(Base62InputChars, MaxIdLen) \cup MoreShareIds

\* Two identifiers are drawn; the first is decoded, then the second, then
\* the first once more.
DecodePlan == <<1, 2, 1>>

Decode ==
  /\ Len(pureCalls.log) < Len(DecodePlan)
  /\ LET arg == pureCalls.inputs[DecodePlan[Len(pureCalls.log) + 1]]
     IN pureCalls' = [pureCalls EXCEPT !.log =
                        Append(@, [fn |-> "base62ToDecimal", arg |-> arg,
                                   ret |-> base62ToDecimal(arg)])]
  /\ UNCHANGED <<awaiting, now, rateLimitMap, pc, reqIp, reqBody, originalUrl, resolvedUrl, step, sub,
                 result, calls, response, backendUrl, admittedInWindow, windowsStarted,
                 inflight, admittedAt, reel>>

\* POST's routing and extractShortcode on URLs of the recognized shapes: a
\* scheme, the host with or without www., a kind segment, an identifier and
\* what may follow it.
ShortcodeIdentifiers == {"Cx1", "a_b-c", "reel", "DAbc123_-x"}
ShortcodeTails == {"", "/", "/?igsh=MzRlODBi", "?utm_source=ig_web_copy_link", "/#c",
                   "/?next=https://www.instagram.com/p/zzz/"}
ShortcodeInputs == {prefix \o id \o tail :
                      prefix \in IgValidPrefixes, id \in ShortcodeIdentifiers,
                      tail \in ShortcodeTails}

Shortcode ==
  /\ pureCalls.log = <<>>
  /\ LET url == pureCalls.inputs[1]
     IN pureCalls' = [pureCalls EXCEPT !.log =
                        <<[fn |-> "extractShortcode", arg |-> url, route |-> Route(url),
                           ret |-> extractShortcode(url)]>>]
  /\ UNCHANGED <<awaiting, now, rateLimitMap, pc, reqIp, reqBody, originalUrl, resolvedUrl, step, sub,
                 result, calls, response, backendUrl, admittedInWindow, windowsStarted,
                 inflight, admittedAt, reel>>

\* The Facebook strategies on the answers of their services: two answers
\* are drawn, each with the strategy that reads it, and the strategies are
\* run on them in turn.
QualityInputs ==
  UNION {{[fn |-> FbMethods[i], resp |-> resp] : resp \in FbResponsesOf(FbMethods[i])} :
           i \in 1..Len(FbMethods)}

Extract ==
  /\ Len(pureCalls.log) < Len(pureCalls.inputs)
  /\ LET input == pureCalls.inputs[Len(pureCalls.log) + 1]
     IN pureCalls' = [pureCalls EXCEPT !.log =
                        Append(@, [fn |-> input.fn, arg |-> input.resp,
                                   ret |-> FbResultOf[input.fn][input.resp]])]
  /\ UNCHANGED <<awaiting, now, rateLimitMap, pc, reqIp, reqBody, originalUrl, resolvedUrl, step, sub,
                 result, calls, response, backendUrl, admittedInWindow, windowsStarted,
                 inflight, admittedAt, reel>>

\* POST's routing (lines 1254 and 1287-1296) on URLs of Facebook hosts,
\* Instagram hosts and other hosts, with paths and queries of every platform.
RouteSchemes == {"https://", "http://"}
RouteHosts == {"www.facebook.com", "m.facebook.com", "fb.watch", "www.instagram.com",
               "instagram.com", "evil.example", "notfacebook.com",
               "www.facebook.com.evil.example"}
RoutePaths == {"/", "/share/r/XyZ9/", "/reel/123", "/watch/?v=7", "/aB1/", "/p/Cx1/",
               "/x?u=facebook.com/share/r/XyZ9/", "/p/Cx1/?next=fb.watch/aB1/"}
RouteInputs ==
  {scheme \o host \o path :
     scheme \in RouteSchemes, host \in RouteHosts, path \in RoutePaths}

\* Lines 1254-1298 and 329-334: where POST sends the URL, and whether
\* fetchFacebookVideo hands it to the share-link resolver, whose redirect
\* tracing fetches it as it is (lines 189-200).
Routed(url) ==
  [fn |-> "POST", arg |-> url, route |-> Route(url),
   igValid |-> isValidInstagramURL(url),
   traced |-> IF Route(url) = "facebook" /\ isFacebookShareURL(url) THEN url ELSE Null]

Classify ==
  /\ pureCalls.log = <<>>
  /\ pureCalls' = [pureCalls EXCEPT !.log = <<Routed(pureCalls.inputs[1])>>]
  /\ UNCHANGED <<awaiting, now, rateLimitMap, pc, reqIp, reqBody, originalUrl, resolvedUrl, step, sub,
                 result, calls, response, backendUrl, admittedInWindow, windowsStarted,
                 inflight, admittedAt, reel>>

\* The resolver's share ID and its decoding (lines 96-97, 142-146) on share
\* links and what resembles them: a host and path in either case, then an
\* identifier drawn from alphabet characters and others, then a tail.
ShareLinkPrefixes ==
  {"https://www.facebook.com/share/r/", "https://www.facebook.com/share/v/",
   "https://WWW.FACEBOOK.COM/SHARE/R/", "https://m.facebook.com/share/V/",
   "https://www.facebook.com/share/", "https://www.facebook.com/share/reel/",
   "https://www.facebook.com/share/p/"}
ShareLinkChars == {"a", "Z", "9", "_", "-", "%"}
ShareLinkTails == {"", "/", "/?mibextid=x_Y-1"}
ShareLinkInputs ==
  {prefix \o id \o tail :
     prefix \in ShareLinkPrefixes, id \in StringsUpTo(ShareLinkChars, MaxIdLen),
     tail \in ShareLinkTails}

\* Lines 96-97 and 142-146: strategy 2 decodes the share ID when there is one.
ShareIdDecoded(url) ==
  LET shareId == extractShareId(url)
  IN [fn |-> "extractShareId", arg |-> url, ret |-> shareId,
      decimalId |-> IF shareId = Null THEN Null ELSE base62ToDecimal(shareId)]

DecodeShareId ==
  /\ pureCalls.log = <<>>
  /\ pureCalls' = [pureCalls EXCEPT !.log = <<ShareIdDecoded(pureCalls.inputs[1])>>]
  /\ UNCHANGED <<awaiting, now, rateLimitMap, pc, reqIp, reqBody, originalUrl, resolvedUrl, step, sub,
                 result, calls, response, backendUrl, admittedInWindow, windowsStarted,
                 inflight, admittedAt, reel>>

\* extractVideoFromJSON (lines 1102-1142). A seconds count is a number of
\* tenths of a second, so that counts with a fraction can be drawn; a field
\* that is not there is NoDuration.
NoDuration == [known |-> FALSE, tenths |-> 0]
Seconds(tenths) == [known |-> TRUE, tenths |-> tenths]

\* String(n) of a non-negative integer.
RECURSIVE JsString(_)
JsString(n) ==
  IF n < 10 THEN SubSeq(DigitChars, n + 1, n + 1)
  ELSE JsString(n \div 10) \o SubSeq(DigitChars, (n % 10) + 1, (n % 10) + 1)

\* .padStart(2, "0")
\* (PadStartNone: the number as it is.)
PadStartNone(str) == str
PadStart(str) == IF Len(str) < 2 THEN "0" \o str ELSE str

\* Lines 1116-1118 and 1131-1133: the duration of a result.
FormatDuration(video_duration) ==
  IF video_duration.known /\ video_duration.tenths # 0
    THEN JsString(video_duration.tenths \div 600) \o ":" \o
         PadStart(JsString((video_duration.tenths % 600) \div 10))
    ELSE Undefined

\* data is an items array (lines 1107-1120) or a single shortcode_media
\* (lines 1121-1135), holding a video or not.
JsonData(isArray, video_url, video_duration) ==
  [isArray |-> isArray, video_url |-> video_url, video_duration |-> video_duration]

extractVideoFromJSON(data) ==
  IF Truthy(data.video_url)
    THEN [x \in {"video_url", "thumbnail", "quality", "duration"} |->
            CASE x = "video_url" -> data.video_url
              [] x = "thumbnail" -> Undefined
              [] x = "quality" -> "HD"
              [] x = "duration" -> FormatDuration(data.video_duration)]
    ELSE JsNull

\* The seconds counts drawn: every whole count up to MaxSeconds, counts
\* with a fraction, and one beyond an hour.
MaxSeconds == 600
DurationInputs ==
  {NoDuration} \cup {Seconds(10 * sec) : sec \in 0..MaxSeconds}
    \cup {Seconds(t) : t \in {4, 15, 599, 655, 36599}}
JsonInputs ==
  {JsonData(isArray, video_url, d) :
     isArray \in BOOLEAN, video_url \in {VidAbs, Undefined}, d \in DurationInputs}

ExtractJson ==
  /\ pureCalls.log = <<>>
  /\ LET data == pureCalls.inputs[1]
     IN pureCalls' = [pureCalls EXCEPT !.log =
                        <<[fn |-> "extractVideoFromJSON", arg |-> data,
                           ret |-> extractVideoFromJSON(data)]>>]
  /\ UNCHANGED <<awaiting, now, rateLimitMap, pc, reqIp, reqBody, originalUrl, resolvedUrl, step, sub,
                 result, calls, response, backendUrl, admittedInWindow, windowsStarted,
                 inflight, admittedAt, reel>>

-----------------------------------------------------------------------------
(* Specifications *)

InitState ==
  /\ now = 0
  /\ rateLimitMap = [ip \in Clients |-> NoRecord]
  /\ pc = "idle"
  /\ reqIp = ""
  /\ reqBody = NoBody
  /\ originalUrl = ""
  /\ resolvedUrl = ""
  /\ step = 0
  /\ sub = 0
  /\ result = JsNull
  /\ calls = <<>>
  /\ response = NoResponse
  /\ backendUrl \in {Undefined, "http://backend:3001"}
  /\ admittedInWindow = [ip \in Clients |-> 0]
  /\ windowsStarted = [ip \in Clients |-> 0]
  /\ inflight = [slot \in Slots |-> NoRequest]
  /\ admittedAt = [ip \in Clients |-> <<>>]
  /\ awaiting = <<>>

NoPureCalls == [inputs |-> <<>>, log |-> <<>>]

Init == InitState /\ pureCalls = NoPureCalls /\ reel = NoReel("production")

Next ==
  \/ \E body \in Bodies : POST(MainClient, body)
  \/ ShareS1
  \/ ShareS2
  \/ ShareS3
  \/ ShareS4
  \/ FbFirstPass
  \/ FbSecondPass
  \/ FbThumbnail
  \/ IgBackend
  \/ IgEmbedApi
  \/ IgPageScrape
  \/ IgPageScrapeEmbed
  \/ IgOEmbed
  \/ IgAlternative
  \/ Finish

\* The resolution pipeline: one client's requests, handled one at a time.
Spec == Init /\ [][Next]_vars

\* The rate limiter: several clients over time, with requests that POST
\* answers at once.
NextRate ==
  \/ Tick
  \/ \E ip \in Clients, body \in RateBodies : POST(ip, body)
  \/ Finish

SpecRate == Init /\ [][NextRate]_vars

\* The backend's GET /api/reel handler.
InitBackend ==
  /\ InitState
  /\ pureCalls = NoPureCalls
  /\ reel \in {NoReel(env) : env \in {"development", "production"}}

NextBackend ==
  \/ \E url \in ReelQueries, limited \in BOOLEAN : ReelGet(url, limited)
  \/ \E error \in ReelErrors \cup {Null} : ReelLaunch(error)
  \/ \E page \in ReelPages, error \in ReelErrors \cup {Null} : ReelNavigate(page, error)
  \/ \E error \in ReelErrors \cup {Null} : ReelEvaluate(error)
  \/ \E rejects \in BOOLEAN : ReelAlternative(rejects)
  \/ \E closeRejects \in BOOLEAN : ReelFinally(closeRejects)
  \/ ReelDone

SpecBackend == InitBackend /\ [][NextBackend]_vars

\* base62ToDecimal on its own.
InitBase62 ==
  /\ InitState
  /\ pureCalls \in {[inputs |-> <<a, b>>, log |-> <<>>] : a, b \in Base62Inputs}
  /\ reel = NoReel("production")

NextBase62 == Decode

SpecBase62 == InitBase62 /\ [][NextBase62]_vars

\* The Facebook extraction strategies on their own.
InitQuality ==
  /\ InitState
  /\ pureCalls \in {[inputs |-> <<a, b>>, log |-> <<>>] : a, b \in QualityInputs}
  /\ reel = NoReel("production")

NextQuality == Extract

SpecQuality == InitQuality /\ [][NextQuality]_vars

\* extractVideoFromJSON on its own.
InitDuration ==
  /\ InitState
  /\ pureCalls \in {[inputs |-> <<data>>, log |-> <<>>] : data \in JsonInputs}
  /\ reel = NoReel("production")

NextDuration == ExtractJson

SpecDuration == InitDuration /\ [][NextDuration]_vars

\* The resolver's share ID on its own.
InitShareId ==
  /\ InitState
  /\ pureCalls \in {[inputs |-> <<url>>, log |-> <<>>] : url \in ShareLinkInputs}
  /\ reel = NoReel("production")

NextShareId == DecodeShareId

SpecShareId == InitShareId /\ [][NextShareId]_vars

\* POST's routing on its own.
InitRoute ==
  /\ InitState
  /\ pureCalls \in {[inputs |-> <<url>>, log |-> <<>>] : url \in RouteInputs}
  /\ reel = NoReel("production")

NextRoute == Classify

SpecRoute == InitRoute /\ [][NextRoute]_vars

\* extractShortcode on its own.
InitShortcode ==
  /\ InitState
  /\ pureCalls \in {[inputs |-> <<url>>, log |-> <<>>] : url \in ShortcodeInputs}
  /\ reel = NoReel("production")

NextShortcode == Shortcode

SpecShortcode == InitShortcode /\ [][NextShortcode]_vars

\* The rate limiter of one client over time, every admission written down.
NextRoll ==
  \/ Tick
  \/ \E body \in RateBodies : PostRecorded(MainClient, body)
  \/ Finish

SpecRoll == Init /\ [][NextRoll]_vars

\* The rate limiter under handlers that run side by side, all of them for
\* requests of one client, which is one key of rateLimitMap.
NextConc ==
  \/ Tick
  \/ \E slot \in Slots : ConcRead(slot, MainClient)
  \/ \E slot \in Slots : ConcDecide(slot)
  \/ \E slot \in Slots : ConcParse(slot)
  \/ \E slot \in Slots : ConcFinish(slot)

SpecConc == Init /\ [][NextConc]_vars

\* The resolution pipeline with every outbound call issued in one step and
\* settled in a later one.
NextAwait ==
  \/ \E body \in Bodies : POST(MainClient, body)
  \/ Issue
  \/ CallLanded /\ ShareS1
  \/ CallLanded /\ ShareS2
  \/ CallLanded /\ ShareS3
  \/ CallLanded /\ ShareS4
  \/ CallLanded /\ FbFirstPass
  \/ CallLanded /\ FbSecondPass
  \/ CallLanded /\ FbThumbnail
  \/ CallLanded /\ IgBackend
  \/ CallLanded /\ IgEmbedApi
  \/ CallLanded /\ IgPageScrape
  \/ CallLanded /\ IgPageScrapeEmbed
  \/ CallLanded /\ IgOEmbed
  \/ CallLanded /\ IgAlternative
  \/ Finish

SpecAwait == Init /\ [][NextAwait]_vars

-----------------------------------------------------------------------------
(* Properties *)

\* A video_url that is there: not null, not undefined, not false, not empty.
HasVideoUrl(v) == v \notin {Null, Undefined, JsFalse, ""}

\* An absolute http:// or https:// URL.
IsAbsoluteHttp(u) == MatchAt(u, "http://", 1) \/ MatchAt(u, "https://", 1)

\* The request being handled carries a Facebook URL / an Instagram URL and
\* outbound calls were made for it.
FacebookRequest == reqBody.json /\ reqUrl \in FbPlainUrls \cup FbShareUrls /\ calls # <<>>
InstagramRequest == reqBody.json /\ reqUrl \in IgUrls /\ calls # <<>>

\* The calls of the extraction strategies: the first pass runs against the
\* resolved URL, the second against the original share URL when it differs.
FirstPassCalls == SelectSeq(calls, LAMBDA c : c.by = "extract" /\ c.url = resolvedUrl)
SecondPassCalls == SelectSeq(calls, LAMBDA c : c.by = "extract" /\ c.url # resolvedUrl)

\* The order the specification fixes: embed player, delegated API, mobile
\* direct scrape, mirror site.
StrategyOrder == <<"fetchViaFacebookAPI", "fetchViaCobalAPI", "fetchViaFacebookDirect",
                   "fetchViaSnapSave">>

\* C1: for one client, the requests of one window are admitted until
\* RATE_LIMIT of them have been, the next one in the same window is rejected
\* and leaves the record alone, and a request issued once more than
\* RATE_LIMIT_WINDOW ms have passed since the window started (or the first
\* request of the client) is admitted and leaves the record at count 1 with
\* the window starting now.
C1_RateLimiting ==
  [][\A ip \in Clients :
       (pc = "idle" /\ pc' = "done" /\ reqIp' = ip) =>
         IF windowsStarted[ip] = 0 \/ now - rateLimitMap[ip].lastReset > RATE_LIMIT_WINDOW
           THEN /\ response'.status # 429
                /\ rateLimitMap'[ip] = [count |-> 1, lastReset |-> now]
                /\ admittedInWindow'[ip] = 1
         ELSE IF admittedInWindow[ip] < RATE_LIMIT
           THEN /\ response'.status # 429
                /\ rateLimitMap'[ip] = [count |-> admittedInWindow[ip] + 1,
                                        lastReset |-> rateLimitMap[ip].lastReset]
         ELSE /\ admittedInWindow[ip] = RATE_LIMIT
              /\ response'.status = 429
              /\ rateLimitMap'[ip] = rateLimitMap[ip]]_vars

\* A client is rejected in its second window, after RATE_LIMIT admissions in it.
C1_Witness ==
  /\ pc = "done"
  /\ response.status = 429
  /\ windowsStarted[reqIp] = 2
  /\ admittedInWindow[reqIp] = RATE_LIMIT

\* C2: a request of a client that has used up its window is answered 429 in
\* the very step that receives it: nothing was classified, resolved or
\* extracted and no outbound call was made for it.
C2_RateLimitedBeforeWork ==
  [][(/\ pc = "idle"
      /\ pc' # "idle"
      /\ admittedInWindow[reqIp'] >= RATE_LIMIT
      /\ now - rateLimitMap[reqIp'].lastReset <= RATE_LIMIT_WINDOW)
     => (/\ pc' = "done"
         /\ response'.status = 429
         /\ ~response'.success
         /\ calls' = <<>>
         /\ originalUrl' = "" /\ resolvedUrl' = ""
         /\ step' = 0 /\ sub' = 0
         /\ result' = JsNull)]_vars

\* A request carrying a resolvable share link was rate-limited.
C2_Witness ==
  /\ pc = "done"
  /\ response.status = 429
  /\ reqUrl \in FbShareUrls
  /\ calls = <<>>

\* C3: an admitted request whose JSON body carries no URL, or a URL that
\* matches neither the Facebook nor the Instagram patterns, is answered 400
\* with success:false at once, with no outbound call.
C3_UnrecognizedUrl400 ==
  (/\ pc # "idle"
   /\ reqBody.json
   /\ reqUrl \in OtherUrls \cup {Undefined, ""}
   /\ response.status # 429)
  => (/\ pc = "done"
      /\ response.status = 400
      /\ ~response.success
      /\ calls = <<>>)

\* An unrecognized URL was answered 400.
C3_Witness ==
  /\ pc = "done"
  /\ reqBody.json
  /\ reqUrl \in OtherUrls
  /\ response.status = 400
  /\ calls = <<>>

\* C4: a Facebook request whose strategies are all exhausted ends with status
\* 404 and the Facebook not-found message.
C4_FacebookExhausted404 ==
  (pc = "done" /\ FacebookRequest /\ ~response.success)
  => (/\ response.status = 404
      /\ response.body =
           M1("error", "Unable to fetch Facebook video. The post may be private or unavailable."))

\* C5: an Instagram request whose backend and local strategies are all
\* exhausted ends with status 404 and the not-found message.
C5_InstagramExhausted404 ==
  (pc = "done" /\ InstagramRequest /\ ~response.success)
  => (/\ response.status = 404
      /\ response.body =
           M1("error", "Unable to fetch video. The post may be private or unavailable."))

\* C6: every success response has status 200 and carries a video_url that is
\* there; a thumbnail alone never makes a success.
C6_SuccessHasVideoUrl ==
  response.success =>
    /\ response.status = 200
    /\ "video_url" \in DOMAIN response.body
    /\ HasVideoUrl(response.body["video_url"])

\* A request that needed more than one outbound call succeeded.
C6_Witness ==
  /\ pc = "done"
  /\ response.success
  /\ Len(calls) > 1
  /\ HasVideoUrl(Get(response.body, "video_url"))

\* C7: the success envelope holds video_url and quality, at most thumbnail
\* and duration besides, and no field whose value is null.
C7_SuccessEnvelopeShape ==
  response.success =>
    /\ {"video_url", "quality"} \subseteq DOMAIN response.body
    /\ DOMAIN response.body \subseteq {"video_url", "thumbnail", "quality", "duration"}
    /\ \A k \in DOMAIN response.body : response.body[k] # Null

\* C8: the video_url of every success response is an absolute http(s) URL.
C8_VideoUrlAbsolute ==
  response.success => IsAbsoluteHttp(Get(response.body, "video_url"))

\* C9: the strategies of the first pass are called in the fixed order, those
\* of the second pass likewise; a strategy is called only after every earlier
\* one of its pass came back without a video_url, and the first one that
\* comes back with one ends the calls and gives the result its video_url.
C9_StrategyChainShortCircuit ==
  LET first == FirstPassCalls
      second == SecondPassCalls
      all == first \o second
  IN /\ Len(first) <= Len(StrategyOrder)
     /\ \A i \in 1..Len(first) : first[i].fn = StrategyOrder[i]
     /\ Len(second) <= 2
     /\ \A i \in 1..Len(second) : second[i].fn = StrategyOrder[2 * i]
     /\ second # <<>> => Len(first) = Len(StrategyOrder)
     /\ \A i \in 1..Len(all) :
          HasVideoUrl(all[i].got) =>
            /\ i = Len(all)
            /\ pc \in {"fb_thumb", "done"}
            /\ Get(result, "video_url") = all[i].got
            /\ pc = "done" =>
                 response.success /\ Get(response.body, "video_url") = all[i].got

\* Strategy 1 failed, strategy 2 succeeded, and the request was answered.
C9_Witness ==
  /\ pc = "done"
  /\ response.success
  /\ Len(FirstPassCalls) = 2
  /\ ~HasVideoUrl(FirstPassCalls[1].got)
  /\ HasVideoUrl(FirstPassCalls[2].got)

\* C10: every share-link shape is classified as share-style and, for such a
\* request, the resolver is called first and all its calls come before any
\* other call; for a Facebook URL that is not a share link the resolver is
\* never called.
C10_ShareLinksResolvedFirst ==
  /\ \A u \in FbShareUrls : IsShareOf[u]
  /\ (FacebookRequest /\ reqUrl \in FbShareUrls) =>
       /\ calls[1].by = "resolver"
       /\ \A i, j \in 1..Len(calls) :
            (i < j /\ calls[j].by = "resolver") => calls[i].by = "resolver"
  /\ (pc \notin {"idle", "done"} /\ reqUrl \in FbShareUrls /\ calls = <<>>) =>
       pc = "share_s1"
  /\ (FacebookRequest /\ reqUrl \in FbPlainUrls) =>
       \A i \in 1..Len(calls) : calls[i].by # "resolver"

\* A share link went through three resolver calls, then extraction succeeded.
C10_Witness ==
  /\ pc = "done"
  /\ response.success
  /\ reqUrl \in FbShareUrls
  /\ Len(calls) >= 4
  /\ calls[3].by = "resolver"
  /\ \E i \in 1..Len(calls) : calls[i].by = "extract"

\* The resolver has returned and none of its strategies settled on a URL.
ResolverInconclusive ==
  /\ pc \in {"fb_pass1", "fb_pass2", "fb_thumb", "done"}
  /\ \E i \in 1..Len(calls) : calls[i].by = "resolver"
  /\ \A i \in 1..Len(calls) : calls[i].by = "resolver" => calls[i].got = Null

\* C11: when no resolver strategy settles on a URL the resolver returns the
\* original URL, and a request that then fails has called the four
\* extraction strategies, in order, each against the original URL.
C11_GiveUpStillExtracts ==
  ResolverInconclusive =>
    /\ resolvedUrl = originalUrl
    /\ originalUrl = reqUrl
    /\ (pc = "done" /\ ~response.success) =>
         /\ Len(FirstPassCalls) = Len(StrategyOrder)
         /\ \A i \in 1..Len(FirstPassCalls) :
              /\ FirstPassCalls[i].fn = StrategyOrder[i]
              /\ FirstPassCalls[i].url = reqUrl

\* The share link /share/r/XyZ9/ went through an inconclusive resolver, four
\* extraction calls, and failed.
C11_Witness ==
  /\ pc = "done"
  /\ reqUrl = "https://www.facebook.com/share/r/XyZ9/"
  /\ ResolverInconclusive
  /\ ~response.success
  /\ Len(FirstPassCalls) = 4

\* A thumbnail that is there.
HasThumbnail(v) == v \notin {Null, Undefined, JsFalse, ""}

\* The calls of the thumbnail probe, and the extraction call that won (the
\* last one, when it came back with a video_url).
ThumbnailCalls == SelectSeq(calls, LAMBDA c : c.by = "thumbnail")
ExtractCalls == SelectSeq(calls, LAMBDA c : c.by = "extract")
Winner == ExtractCalls[Len(ExtractCalls)]
FacebookSuccess == pc = "done" /\ FacebookRequest /\ response.success

\* The backfill, but for what the envelope holds after a probe that found
\* nothing: a winner with a thumbnail is not probed for and keeps it; a winner
\* without one is probed for once, on the original URL, and a thumbnail found
\* is the envelope's; video_url and quality are the winner's either way.
ThumbnailBackfill ==
  FacebookSuccess =>
    /\ Get(response.body, "video_url") = Get(Winner.ret, "video_url")
    /\ Get(response.body, "quality") = Get(Winner.ret, "quality")
    /\ HasThumbnail(Get(Winner.ret, "thumbnail")) =>
         /\ ThumbnailCalls = <<>>
         /\ Get(response.body, "thumbnail") = Get(Winner.ret, "thumbnail")
    /\ ~HasThumbnail(Get(Winner.ret, "thumbnail")) =>
         /\ Len(ThumbnailCalls) = 1
         /\ ThumbnailCalls[1].url = reqUrl
         /\ HasThumbnail(ThumbnailCalls[1].got) =>
              Get(response.body, "thumbnail") = ThumbnailCalls[1].got

\* C12: the backfill as above, and after a probe that found nothing the
\* envelope has no thumbnail field.
C12_ThumbnailBackfill ==
  /\ ThumbnailBackfill
  /\ (/\ FacebookSuccess
      /\ ThumbnailCalls # <<>>
      /\ ~HasThumbnail(ThumbnailCalls[1].got))
     => "thumbnail" \notin DOMAIN response.body

\* The calls of the extraction work of either platform, and those among them
\* that came back with a video_url.
OutcomeCalls == SelectSeq(calls, LAMBDA c : c.by \in {"extract", "instagram"})
ChosenCalls == SelectSeq(OutcomeCalls, LAMBDA c : HasVideoUrl(c.got))

\* C13: a successful request has exactly one call that came back with a
\* video_url, the last of its extraction calls; every field of the envelope
\* is that call's, but for the thumbnail, which is the thumbnail probe's only
\* when that call had none.
C13_OneOutcomeChosen ==
  (pc = "done" /\ response.success) =>
    /\ Len(ChosenCalls) = 1
    /\ ChosenCalls[1] = OutcomeCalls[Len(OutcomeCalls)]
    /\ LET chosen == ChosenCalls[1].ret
       IN /\ \A k \in DOMAIN response.body \ {"thumbnail"} :
               response.body[k] = Get(chosen, k)
          /\ Get(response.body, "video_url") = Get(chosen, "video_url")
          /\ Get(response.body, "quality") = Get(chosen, "quality")
          /\ \/ Get(response.body, "thumbnail") = Get(chosen, "thumbnail")
             \/ /\ ~HasThumbnail(Get(chosen, "thumbnail"))
                /\ ThumbnailCalls # <<>>
                /\ Get(response.body, "thumbnail") = ThumbnailCalls[1].got

\* A second-quality result won after an earlier strategy failed, and its
\* thumbnail came from the probe.
C13_Witness ==
  /\ pc = "done"
  /\ response.success
  /\ Len(OutcomeCalls) >= 2
  /\ Get(response.body, "quality") = "SD"
  /\ ThumbnailCalls # <<>>
  /\ Get(response.body, "thumbnail") = ThumbnailCalls[1].got

\* C14: every outbound call made for a request is given an explicit timeout
\* with a cancellation signal.
C14_EveryCallHasTimeout ==
  \A i \in 1..Len(calls) : FetchTimeout(calls[i]) > 0

\* C15: with handlers running side by side, at most one of them is between
\* reading a record and writing it back, every admission raised the count it
\* observed (the record's count is the number admitted in the window), and no
\* client has more than RATE_LIMIT requests admitted in one window.
C15_AtomicPerKey ==
  /\ Cardinality({slot \in Slots : InSyncSegment(inflight[slot])}) <= 1
  /\ \A ip \in Clients :
       /\ admittedInWindow[ip] <= RATE_LIMIT
       /\ windowsStarted[ip] > 0 => rateLimitMap[ip].count = admittedInWindow[ip]

\* Two requests of one client are under way at once: one was admitted and is
\* awaiting its body, the other found the window used up.
C15_Witness ==
  \E s1, s2 \in Slots :
    /\ s1 # s2
    /\ inflight[s1].ip = inflight[s2].ip
    /\ inflight[s1].at = "parsing"
    /\ inflight[s2].at = "answered"
    /\ inflight[s2].status = 429
    /\ admittedInWindow[inflight[s1].ip] = RATE_LIMIT

\* C16: for every client, the admissions that fall in one time interval no
\* longer than RATE_LIMIT_WINDOW number at most RATE_LIMIT, whether or not the
\* client's record was reset inside the interval.
C16_RollingWindow ==
  \A ip \in Clients :
    \A i, j \in 1..Len(admittedAt[ip]) :
      (i <= j /\ admittedAt[ip][j] - admittedAt[ip][i] <= RATE_LIMIT_WINDOW)
        => j - i + 1 <= RATE_LIMIT

\* The value the spec gives an identifier: digits 0-9 are 0..9, a-z are
\* 10..35, A-Z are 36..61, most significant first.  Machine integers hold it
\* for identifiers of up to five characters.
Base62DigitValue(c) ==
  IF Contains(DigitChars, c) THEN IndexOf(DigitChars, c) - 1
  ELSE IF Contains(LowerChars, c) THEN 10 + IndexOf(LowerChars, c) - 1
  ELSE 36 + IndexOf(UpperChars, c) - 1

RECURSIVE Base62Value(_)
Base62Value(s) ==
  IF s = "" THEN 0
  ELSE Base62Value(SubSeq(s, 1, Len(s) - 1)) * 62 + Base62DigitValue(Char(s, Len(s)))

RECURSIVE NatToString(_)
NatToString(n) ==
  IF n < 10 THEN Char(DigitChars, n + 1)
  ELSE NatToString(n \div 10) \o Char(DigitChars, (n % 10) + 1)

ValidBase62(s) == \A i \in 1..Len(s) : Contains(Base62Alphabet, Char(s, i))

\* Values worked out separately for the longer identifiers; the last is
\* 62^11 - 1, above 2^64.
KnownDecimals ==
  <<[id |-> "9zA", decimal |-> "36802"],
    [id |-> "1a2B3c4D5e", decimal |-> "15729635366859616"],
    [id |-> "ZZZZZZZZZZZ", decimal |-> "52036560683837093887"]>>

Base62Decodes == {c \in {pureCalls.log[i] : i \in 1..Len(pureCalls.log)} :
                    c.fn = "base62ToDecimal"}

\* C17: base62ToDecimal returns the decimal rendering of the positional
\* value of its argument over 0-9, a-z, A-Z (most significant first), also
\* where the value is beyond 64 bits; "0" gives "0"; a repeated call gives
\* the same string.
C17_Base62Decodes ==
  \A c \in Base62Decodes :
    /\ (ValidBase62(c.arg) /\ Len(c.arg) <= 5) => c.ret = NatToString(Base62Value(c.arg))
    /\ \A k \in 1..Len(KnownDecimals) :
         c.arg = KnownDecimals[k].id => c.ret = KnownDecimals[k].decimal
    /\ c.arg = "0" => c.ret = "0"
    /\ \A d \in Base62Decodes : d.arg = c.arg => d.ret = c.ret

\* An identifier of eleven characters has been decoded, twice, together with
\* one that uses both letter cases.
C17_Witness ==
  /\ Len(pureCalls.log) = Len(DecodePlan)
  /\ pureCalls.inputs = <<"ZZZZZZZZZZZ", "aZ">>
  /\ pureCalls.log[3].ret = "52036560683837093887"
  /\ pureCalls.log[2].ret = "681"

\* C18: an argument with a character outside the alphabet, wherever it
\* stands, makes base62ToDecimal throw: no decimal string comes back, not
\* even that of the characters before or after it.
C18_InvalidCharacterThrows ==
  \A c \in Base62Decodes : ~ValidBase62(c.arg) => c.ret = Thrown

\* The character outside the alphabet came last in one argument and first,
\* or in the middle, in the other, and every call threw.
C18_Witness ==
  /\ Len(pureCalls.log) = Len(DecodePlan)
  /\ pureCalls.inputs[1] \in {"_Z", "ZZZZZ_ZZZZZZ"}
  /\ pureCalls.inputs[2] = "a_"
  /\ \A i \in 1..Len(pureCalls.log) : pureCalls.log[i].ret = Thrown

\* An identifier is in canonical form when it is not empty and starts with
\* "0" only if it is "0" itself.
CanonicalBase62(s) ==
  /\ ValidBase62(s)
  /\ s # ""
  /\ (Char(s, 1) = "0" => s = "0")

\* C19 as stated: two distinct valid identifiers, the empty one and those
\* with leading "0" characters included, never decode to the same decimal
\* string.
C19_DecodingInjective ==
  \A c, d \in Base62Decodes :
    (ValidBase62(c.arg) /\ ValidBase62(d.arg) /\ c.arg # d.arg) => c.ret # d.ret

\* C19 amended: two distinct identifiers in canonical form never decode to
\* the same decimal string.
C19_DecodingInjectiveCanonical ==
  \A c, d \in Base62Decodes :
    (CanonicalBase62(c.arg) /\ CanonicalBase62(d.arg) /\ c.arg # d.arg) => c.ret # d.ret

\* Two canonical identifiers that differ in letter case only were decoded to
\* different strings.
C19_Witness ==
  /\ Len(pureCalls.log) = Len(DecodePlan)
  /\ pureCalls.inputs = <<"aZ", "Za">>
  /\ pureCalls.log[1].ret = "681"
  /\ pureCalls.log[2].ret = "3792"

\* The identifier of a URL of a recognized shape: what stands between the
\* kind segment the URL starts with and the next "/", or the query, the
\* fragment or the end of the URL when no "/" closes it.
RECURSIVE SegmentEnd(_, _)
SegmentEnd(s, i) ==
  IF i <= Len(s) /\ Char(s, i) \notin {"/", "?", "#"} THEN SegmentEnd(s, i + 1) ELSE i - 1

IdentifierOf(url) ==
  LET prefix == CHOOSE p \in IgValidPrefixes : MatchAt(url, p, 1)
  IN SubSeq(url, Len(prefix) + 1, SegmentEnd(url, Len(prefix) + 1))

ShortcodeCalls == {c \in {pureCalls.log[i] : i \in 1..Len(pureCalls.log)} :
                     c.fn = "extractShortcode"}

\* C20: a URL of a recognized shape is classified as Instagram and
\* extractShortcode returns its identifier whole: not a prefix of it, and
\* nothing taken from another place of the URL.
C20_ShortcodeIsIdentifier ==
  \A c \in ShortcodeCalls :
    /\ c.route = "instagram"
    /\ c.ret = IdentifierOf(c.arg)

\* What holds of every call: the URL is classified as Instagram and a
\* shortcode comes back.
ShortcodeFound ==
  \A c \in ShortcodeCalls : c.route = "instagram" /\ c.ret # Null /\ c.ret # ""

\* What the backend is not asked to extract from: no url parameter, or a
\* string that is no Instagram post, reel, reels or tv URL.
ReelNotInstagram ==
  {Undefined, "", "https://example.com", "instagram.com/p/abc",
   "https://www.instagram.com/stories/u/1/", "https://www.facebook.com/share/r/abc/"}

\* C21: a GET /api/reel that the limiter let through, with the url parameter
\* missing or not an Instagram post/reel/reels/tv URL, is answered 400 with
\* success:false and no browser is launched for it.
C21_BackendRejectsBadUrl ==
  (reel.at # "idle" /\ ~reel.limited /\ reel.url \in ReelNotInstagram)
    => (/\ reel.res.status = 400
        /\ reel.res.body["success"] = JsFalse
        /\ reel.browser = "none"
        /\ reel.launches = 0)

\* The handler has returned on the URL that test.js sends as invalid.
C21_Witness ==
  /\ reel.at = "done"
  /\ reel.url = "https://example.com"
  /\ reel.res.status = 400
  /\ reel.res.body["message"] = ReelInvalidMessage

\* The calls of the share-link resolver, the strategy each belongs to (1 the
\* probe of the share URL, 2 the probe of the URL built from the share id,
\* 3 redirect tracing, 4 the automation backend), and the resolver having
\* returned to fetchFacebookVideo.
ResolverCalls == SelectSeq(calls, LAMBDA c : c.by = "resolver")

ResolverStrategy(c) ==
  IF c.fn = "probe" THEN (IF c.url = reqUrl THEN 1 ELSE 2)
  ELSE IF c.fn \in {"trace-manual", "trace-follow"} THEN 3
  ELSE 4

ResolverReturned ==
  /\ pc \in {"fb_pass1", "fb_pass2", "fb_thumb", "done"}
  /\ ResolverCalls # <<>>

\* C22: the resolver's calls come in the order of its strategies, starting
\* with the probe of the share URL; a call is followed by another only when
\* it settled on no URL, and the URL a call settled on is the resolver's
\* result.
C22_FirstCanonicalWins ==
  LET rc == ResolverCalls
  IN /\ rc # <<>> => ResolverStrategy(rc[1]) = 1
     /\ \A i, j \in 1..Len(rc) :
          i < j =>
            /\ ResolverStrategy(rc[i]) <= ResolverStrategy(rc[j])
            /\ ResolverStrategy(rc[i]) = ResolverStrategy(rc[j]) =>
                 (rc[i].fn = "trace-manual" /\ rc[j].fn = "trace-follow" /\ j = i + 1)
            /\ rc[i].got = Null
     /\ (ResolverReturned /\ rc[Len(rc)].got # Null) => resolvedUrl = rc[Len(rc)].got

\* The URL built from the share id won: two probes were made, no redirect
\* was traced, and extraction then ran against the built URL.
C22_Witness ==
  /\ pc = "done"
  /\ reqUrl = "https://www.facebook.com/share/r/XyZ9/"
  /\ Len(ResolverCalls) = 2
  /\ ResolverCalls[2].got = resolvedUrl
  /\ resolvedUrl # reqUrl
  /\ backendUrl # Undefined
  /\ ExtractCalls # <<>>

\* C23: no failure of a resolver call ends the request: while the resolver
\* runs no response is chosen, and once it has returned it has returned a
\* Facebook URL and extraction goes on from it, whatever its calls came to.
C23_ResolverNeverThrows ==
  /\ pc \in {"share_s1", "share_s2", "share_s3", "share_s4"} => response = NoResponse
  /\ ResolverReturned =>
       /\ isFacebookURL(resolvedUrl)
       /\ pc = "done" => ExtractCalls # <<>>

\* Every resolver strategy failed and extraction was still attempted.
C23_Witness ==
  /\ pc = "done"
  /\ Len(ResolverCalls) = 4
  /\ \A i \in 1..4 : ResolverCalls[i].got = Null
  /\ ResolverCalls[4].fn = "backend"
  /\ ExtractCalls # <<>>

\* C24: the URL the resolver returns is the original URL or one that is not
\* share-style.
C24_NeverAnotherShareUrl ==
  ResolverReturned => (resolvedUrl = reqUrl \/ ~isFacebookShareURL(resolvedUrl))

\* Redirect tracing met a Location that was itself a share link, passed it
\* over, and the resolver came back with a URL that is not share-style.
C24_Witness ==
  /\ ResolverReturned
  /\ resolvedUrl # reqUrl
  /\ ResolverCalls[Len(ResolverCalls)].fn = "trace-follow"
  /\ ~isFacebookShareURL(resolvedUrl)

\* What the delegated resolver's answer says: a resolvable status and a url.
ReportsResolvable(body) ==
  /\ Get(body, "status") \in {"redirect", "stream", "tunnel"}
  /\ Get(body, "url") \notin {Undefined, Null, ""}

\* C25: an answer of the delegated resolver with status redirect, stream or
\* tunnel and a url is one the probe accepts; when the probe of the share
\* URL accepted its answer, it is the resolver's only call and the resolver
\* has returned the original URL.
C25_ProbeSuccessKeepsOriginal ==
  /\ \A resp \in CobaltProbeResponses :
       (resp.net = "ok" /\ ReportsResolvable(resp.body)) => CobaltCanHandle(resp)
  /\ (ResolverCalls # <<>> /\ ResolverCalls[1].got # Null) =>
       /\ Len(ResolverCalls) = 1
       /\ pc \in {"fb_pass1", "fb_pass2", "fb_thumb", "done"}
       /\ resolvedUrl = reqUrl

\* The probe accepted its answer and extraction ran against the share URL
\* itself.
C25_Witness ==
  /\ pc = "done"
  /\ reqUrl \in FbShareUrls
  /\ Len(ResolverCalls) = 1
  /\ ResolverCalls[1].got = reqUrl
  /\ ExtractCalls # <<>>
  /\ ExtractCalls[1].url = reqUrl

\* C26: with BACKEND_URL unset the resolver never calls the automation
\* backend and never stands at strategy 4; when redirect tracing too is
\* inconclusive the resolver has returned the original URL.
C26_NoBackendNoCall ==
  backendUrl = Undefined =>
    /\ pc # "share_s4"
    /\ \A i \in 1..Len(ResolverCalls) : ResolverCalls[i].fn # "backend"
    /\ (/\ ResolverCalls # <<>>
        /\ ResolverStrategy(ResolverCalls[Len(ResolverCalls)]) = 3
        /\ ResolverCalls[Len(ResolverCalls)].got = Null)
       => (ResolverReturned /\ resolvedUrl = reqUrl)

\* With BACKEND_URL unset, redirect tracing was inconclusive and extraction
\* went on against the original URL.
C26_Witness ==
  /\ backendUrl = Undefined
  /\ pc = "done"
  /\ ResolverCalls # <<>>
  /\ ResolverStrategy(ResolverCalls[Len(ResolverCalls)]) = 3
  /\ ResolverInconclusive
  /\ ExtractCalls # <<>>

\* The first pass has run through its four strategies without a video_url.
FirstPassProducedNothing ==
  /\ Len(FirstPassCalls) = Len(StrategyOrder)
  /\ \A i \in 1..Len(FirstPassCalls) : ~HasVideoUrl(FirstPassCalls[i].got)

\* The strategies of the second pass, in the order the specification gives.
SecondPassOrder == <<"fetchViaCobalAPI", "fetchViaSnapSave">>

\* C27: extraction calls against the original URL of a resolved share link
\* are made only after the first pass produced nothing, and are then made:
\* the external resolver, then (if that yields no video_url) the mirror site,
\* nothing else; a winner of the second pass without a thumbnail is probed
\* for one on the original URL; when the resolver returned the original URL
\* the four calls of the first pass are all the extraction calls there are.
C27_SecondPass ==
  FacebookRequest =>
    /\ SecondPassCalls # <<>> =>
         /\ reqUrl \in FbShareUrls
         /\ resolvedUrl # reqUrl
         /\ FirstPassProducedNothing
    /\ (pc = "done" /\ FirstPassProducedNothing /\ resolvedUrl # reqUrl) =>
         SecondPassCalls # <<>>
    /\ Len(SecondPassCalls) <= Len(SecondPassOrder)
    /\ \A i \in 1..Len(SecondPassCalls) :
         /\ SecondPassCalls[i].fn = SecondPassOrder[i]
         /\ SecondPassCalls[i].url = reqUrl
         /\ i < Len(SecondPassCalls) => ~HasVideoUrl(SecondPassCalls[i].got)
    /\ (pc = "done" /\ SecondPassCalls # <<>> /\ ~response.success) =>
         Len(SecondPassCalls) = Len(SecondPassOrder)
    /\ (FacebookSuccess /\ SecondPassCalls # <<>>
          /\ ~HasThumbnail(Get(Winner.ret, "thumbnail"))) =>
         /\ Len(ThumbnailCalls) = 1
         /\ ThumbnailCalls[1].url = reqUrl
    /\ resolvedUrl = reqUrl => Len(ExtractCalls) <= Len(StrategyOrder)

\* A share link was resolved, the first pass produced nothing, the external
\* resolver of the second pass neither, and the mirror site's result, which
\* had no thumbnail, won.
C27_Witness ==
  /\ FacebookSuccess
  /\ resolvedUrl # reqUrl
  /\ Len(SecondPassCalls) = 2
  /\ Winner.fn = "fetchViaSnapSave"
  /\ Len(ThumbnailCalls) = 1

\* The calls fetchInstagramData made, and those of its local strategies.
InstagramCalls == SelectSeq(calls, LAMBDA c : c.by = "instagram")
LocalCalls == SelectSeq(InstagramCalls, LAMBDA c : c.fn # "backend")

\* The value a server reads back from a percent-encoded query parameter.
RECURSIVE PercentDecoded(_)
PercentDecoded(s) ==
  IF s = "" THEN ""
  ELSE IF SubSeq(s, 1, 1) = "%" /\ Len(s) >= 3
    THEN (CHOOSE c \in DOMAIN UriEscapes : UriEscapes[c] = SubSeq(s, 1, 3))
           \o PercentDecoded(SubSeq(s, 4, Len(s)))
  ELSE SubSeq(s, 1, 1) \o PercentDecoded(SubSeq(s, 2, Len(s)))

\* The url parameter the backend receives from a call to its /api/reel.
ReelParameter(callUrl) ==
  LET marker == "/api/reel?url="
      i == IndexOf(callUrl, marker)
  IN IF i = 0 THEN Undefined
     ELSE PercentDecoded(SubSeq(callUrl, i + Len(marker), Len(callUrl)))

LocalStrategy(c) ==
  CASE c.fn = "fetchViaInstagramAPI" -> 1
    [] c.fn \in {"fetchViaOEmbed", "fetchViaAlternativeService"} -> 3
    [] OTHER -> 2

\* C29: when the backend call yielded no video URL the local strategies run,
\* starting with the embed endpoint and moving on, one strategy at a time
\* and never back, to the page scrape and to oEmbed; a call that yields a
\* video URL is the last call of the request and its video URL is the
\* response's (with quality HD when it is the embed endpoint's); a request
\* ends without a video only after all three strategies were invoked.
C29_FallThrough ==
  (InstagramRequest /\ ~HasVideoUrl(calls[1].got)) =>
    /\ pc \in {"ig_chain", "done"}
    /\ pc = "done" => LocalCalls # <<>>
    /\ LocalCalls # <<>> => LocalStrategy(LocalCalls[1]) = 1
    /\ \A i \in 1..(Len(LocalCalls) - 1) :
         /\ ~HasVideoUrl(LocalCalls[i].got)
         /\ LocalStrategy(LocalCalls[i + 1]) - LocalStrategy(LocalCalls[i]) \in {0, 1}
    /\ Cardinality({i \in 1..Len(LocalCalls) : LocalStrategy(LocalCalls[i]) = 1}) <= 1
    /\ (LocalCalls # <<>> /\ HasVideoUrl(LocalCalls[Len(LocalCalls)].got)) =>
         LET hit == LocalCalls[Len(LocalCalls)]
         IN /\ pc = "done"
            /\ response.success
            /\ Get(response.body, "video_url") = hit.got
            /\ LocalStrategy(hit) = 1 => Get(response.body, "quality") = "HD"
    /\ (pc = "done" /\ ~response.success) =>
         {LocalStrategy(LocalCalls[i]) : i \in 1..Len(LocalCalls)} = {1, 2, 3}
    /\ (pc = "ig_chain" /\ LocalCalls # <<>>) =>
         step \in { LocalStrategy(LocalCalls[Len(LocalCalls)]),
                    LocalStrategy(LocalCalls[Len(LocalCalls)]) + 1 }

\* The backend failed, the embed endpoint and the page scrape yielded
\* nothing, and oEmbed's answer held the video.
C29_Witness ==
  /\ InstagramRequest
  /\ ~HasVideoUrl(calls[1].got)
  /\ pc = "done"
  /\ response.success
  /\ LocalCalls[Len(LocalCalls)].fn = "fetchViaOEmbed"
  /\ Len(LocalCalls) >= 3

\* The call after the i-th is the mobile-app scrape of the canonical post
\* URL, or that scrape is what the request is about to do.
AlternativeFollows(i) ==
  \/ /\ i < Len(calls)
     /\ calls[i + 1].fn = "fetchViaAlternativeService"
     /\ calls[i + 1].url = IgPostUrl(ShortcodeOf[reqUrl])
  \/ /\ i = Len(calls)
     /\ pc = "ig_chain"
     /\ IgApproaches[step] = "fetchViaOEmbed"
     /\ sub = 2

\* The i-th call is an oEmbed call whose fetch was rejected: there is no
\* oEmbed response, the strategy returned null from its catch block and the
\* request ended with it.
OEmbedRejected(i) ==
  /\ i = Len(calls)
  /\ pc = "done"
  /\ calls[i].ret = JsNull

\* C30: an oEmbed call whose response yielded no video URL (endpoint not OK,
\* no embed markup, markup without a video tag, or only a thumbnail) is
\* followed by the mobile-app scrape of the canonical post URL.
C30_OEmbedFallsBack ==
  InstagramRequest =>
    \A i \in 1..Len(calls) :
      (calls[i].fn = "fetchViaOEmbed" /\ ~HasVideoUrl(calls[i].got)) =>
        \/ AlternativeFollows(i)
        \/ OEmbedRejected(i)

Invoked(c) ==
  IF c.fn \in {"probe", "fetchViaCobalAPI"} THEN "api.cobalt.tools" ELSE c.fn

\* C32: among the calls made for one request no two invoke the same
\* strategy with the same input URL, the external resolver's calls by the
\* share-link probe and by the extraction chain included.
C32_NoRepeatedCall ==
  \A i, j \in 1..Len(calls) :
    (i < j /\ Invoked(calls[i]) = Invoked(calls[j])) => calls[i].url # calls[j].url

\* The markers each markup strategy looks for, in the order it tries them.
MarkersOf(fn) ==
  CASE fn = "fetchViaFacebookAPI" -> FbApiHdPatterns \o FbApiSdPatterns
    [] fn = "fetchViaFacebookDirect" -> FbDirectHdPatterns \o FbDirectFallbackPatterns
    [] fn = "fetchViaSnapSave" -> SnapSaveHdPatterns \o SnapSaveFallbackPatterns

\* The markers that carry an HD label in their name, their link text or
\* their class.
HdLabeled ==
  {"\"playable_url_quality_hd\":", "\"browser_native_hd_url\":", "\"hd_src\":", "hd_src:",
   "href download=\"*hd*.mp4\"", "href>*HD*</a>", "<a href class=\"*hd*\""}

\* The first marker of the strategy's order that the markup holds.
MatchedMarker(fn, html) ==
  LET order == MarkersOf(fn)
      hits == {i \in 1..Len(order) : order[i] \in DOMAIN html}
  IN order[CHOOSE i \in hits : \A j \in hits : i <= j]

\* C33: a markup strategy that returns a result tags it HD when the markup
\* holds an HD-labeled marker, whatever else it holds, and SD when it holds
\* none; the external API's results are all tagged HD.
C33_QualityTagging ==
  \A i \in 1..Len(pureCalls.log) :
    LET call == pureCalls.log[i]
    IN call.ret # JsNull =>
         IF call.fn = "fetchViaCobalAPI"
           THEN Get(call.ret, "quality") = "HD"
           ELSE /\ Get(call.ret, "quality") \in {"HD", "SD"}
                /\ Get(call.ret, "quality") = "HD" <=>
                     (DOMAIN call.arg.body \cap HdLabeled # {})
                /\ Get(call.ret, "quality") = "HD" <=>
                     (MatchedMarker(call.fn, call.arg.body) \in HdLabeled)

\* The two-digit renderings of 0..59, written out digit by digit.
TwoDigits ==
  [sec \in 0..59 |-> SubSeq("012345", (sec \div 10) + 1, (sec \div 10) + 1)
                       \o SubSeq("0123456789", (sec % 10) + 1, (sec % 10) + 1)]

\* The duration text for a count of whole seconds: the minutes, a colon and
\* the two-digit seconds.
MinutesSeconds(whole) == NatToString(whole \div 60) \o ":" \o TwoDigits[whole % 60]

\* The calls of extractVideoFromJSON that returned a result.
JsonResults == SelectSeq(pureCalls.log, LAMBDA c : c.fn = "extractVideoFromJSON" /\ c.ret # JsNull)

\* C34 as stated: every seconds count s, 0 included, gives a duration of
\* floor(s/60), a colon and floor(s mod 60) on two digits, and no count
\* gives no duration.
C34_DurationFormat ==
  \A i \in 1..Len(JsonResults) :
    LET d == JsonResults[i].arg.video_duration
        duration == Get(JsonResults[i].ret, "duration")
    IN IF d.known
         THEN duration = MinutesSeconds(d.tenths \div 10)
         ELSE duration = Undefined

\* C34, amended: every seconds count s other than 0 gives a duration of
\* floor(s/60), a colon and floor(s mod 60) on two digits (65 gives "1:05",
\* 600 gives "10:00"); a count of 0, like no count, gives no duration.
C34_DurationFormatNonZero ==
  \A i \in 1..Len(JsonResults) :
    LET d == JsonResults[i].arg.video_duration
        duration == Get(JsonResults[i].ret, "duration")
    IN /\ IF d.known /\ d.tenths # 0
            THEN duration = MinutesSeconds(d.tenths \div 10)
            ELSE duration = Undefined
       /\ d = Seconds(650) => duration = "1:05"
       /\ d = Seconds(6000) => duration = "10:00"

\* A count of 65 seconds was formatted.
C34_Witness ==
  /\ JsonResults # <<>>
  /\ JsonResults[1].arg.video_duration = Seconds(650)
  /\ Get(JsonResults[1].ret, "duration") = "1:05"

\* C35: every record of the rate-limit table has a count from 1 to
\* RATE_LIMIT, and no step removes a client's record: a record is only
\* written anew, with count 1, by the request that starts a window.
C35_RecordInvariant ==
  /\ [](\A ip \in Clients :
          rateLimitMap[ip] # NoRecord =>
            /\ rateLimitMap[ip].count \in 1..RATE_LIMIT
            /\ rateLimitMap[ip].lastReset \in 0..now)
  /\ [][\A ip \in Clients :
          rateLimitMap[ip] # NoRecord =>
            /\ rateLimitMap'[ip] # NoRecord
            /\ \/ rateLimitMap'[ip] = rateLimitMap[ip]
               \/ rateLimitMap'[ip] = [rateLimitMap[ip] EXCEPT !.count = @ + 1]
               \/ rateLimitMap'[ip] = [count |-> 1, lastReset |-> now]]_vars

\* One client's record is full, and the other's was overwritten by the
\* request that started its second window.
C35_Witness ==
  \E ip, other \in Clients :
    /\ rateLimitMap[ip].count = RATE_LIMIT
    /\ rateLimitMap[other].count = 1
    /\ windowsStarted[other] = 2

\* C36: a request that is answered 429 leaves the whole rate-limit table as
\* it was, so the time from which its client is admitted again, the window
\* start plus RATE_LIMIT_WINDOW, does not move; and a request changes no
\* record but its own client's.
C36_RejectionLeavesTable ==
  [][\A ip \in Clients :
       (pc = "idle" /\ pc' # "idle" /\ reqIp' = ip) =>
         /\ response'.status = 429 =>
              /\ rateLimitMap' = rateLimitMap
              /\ rateLimitMap'[ip].lastReset + RATE_LIMIT_WINDOW
                   = rateLimitMap[ip].lastReset + RATE_LIMIT_WINDOW
         /\ \A other \in Clients \ {ip} : rateLimitMap'[other] = rateLimitMap[other]]_vars

\* A client was rejected more than half a window after its window started,
\* while the other client has a record of its own.
C36_Witness ==
  /\ pc = "done"
  /\ response.status = 429
  /\ now - rateLimitMap[reqIp].lastReset >= RATE_LIMIT_WINDOW \div 2
  /\ \E other \in Clients \ {reqIp} : rateLimitMap[other].count >= 2

\* The share IDs the resolver extracted.
ShareIdCalls == SelectSeq(pureCalls.log, LAMBDA c : c.fn = "extractShareId")

\* C37: the resolver decodes only a share ID it extracted, an extracted
\* share ID is a non-empty string of base-62 alphabet characters, and its
\* decoding does not raise.
C37_DecodeNeverRaises ==
  \A i \in 1..Len(ShareIdCalls) :
    LET c == ShareIdCalls[i]
    IN IF c.ret = Null
         THEN c.decimalId = Null
         ELSE /\ Len(c.ret) >= 1
              /\ \A k \in 1..Len(c.ret) :
                   \E a \in 1..62 : SubSeq(c.ret, k, k) = SubSeq(Base62Alphabet, a, a)
              /\ c.decimalId # Thrown
              /\ c.decimalId # Null

\* A share ID was cut off at a character outside the alphabet and decoded.
C37_Witness ==
  /\ ShareIdCalls # <<>>
  /\ ShareIdCalls[1].arg = "https://WWW.FACEBOOK.COM/SHARE/R/Z_/?mibextid=x_Y-1"
  /\ ShareIdCalls[1].ret = "Z"
  /\ ShareIdCalls[1].decimalId = "61"

\* The host of an absolute URL: what stands between "://" and the next "/",
\* "?" or "#" ("" when the URL has no scheme).
HostOf(url) ==
  LET i == IndexOf(url, "://")
  IN IF i = 0 THEN ""
     ELSE LET from == i + 3
              ends == {k \in from..Len(url) : SubSeq(url, k, k) \in {"/", "?", "#"}}
              to == IF ends = {} THEN Len(url)
                    ELSE (CHOOSE k \in ends : \A e \in ends : k <= e) - 1
          IN SubSeq(url, from, to)

\* The hosts of the two platforms.
HostEndsWith(host, suffix) ==
  Len(host) >= Len(suffix) /\ SubSeq(host, Len(host) - Len(suffix) + 1, Len(host)) = suffix
FacebookHost(host) ==
  host \in {"facebook.com", "fb.watch"} \/ HostEndsWith(host, ".facebook.com")
InstagramHost(host) == host \in {"instagram.com", "www.instagram.com"}

\* The URLs POST classified.
RoutedCalls == SelectSeq(pureCalls.log, LAMBDA c : c.fn = "POST")

\* C38: a URL is routed to the Facebook orchestrator only on a Facebook
\* host and to the Instagram chain only on an Instagram host, the redirect
\* tracing fetches it only on a Facebook host, a URL on any other host is
\* rejected, and a URL that passes the Instagram validation does not go to
\* the Facebook orchestrator.
C38_HostBasedRouting ==
  \A i \in 1..Len(RoutedCalls) :
    LET c == RoutedCalls[i]
        host == HostOf(c.arg)
    IN /\ c.route = "facebook" => FacebookHost(host)
       /\ c.route = "instagram" => InstagramHost(host)
       /\ c.traced # Null => FacebookHost(HostOf(c.traced))
       /\ (~FacebookHost(host) /\ ~InstagramHost(host)) => c.route = "invalid"
       /\ c.igValid => c.route # "facebook"

\* C39: a browser is open only between its launch and the finally block;
\* when the handler has finished, a browser that was launched has been
\* closed, or its close was attempted and rejected; and the finally block,
\* whether the close succeeds or not, leaves the response as it was chosen.
C39_BrowserClosed ==
  /\ [](/\ reel.browser = "open" =>
             reel.at \in {"navigate", "evaluate", "alternative", "finally"}
        /\ reel.at = "done" =>
             /\ reel.browser # "open"
             /\ reel.launches = 1 <=> reel.browser \in {"closed", "close-failed"}
             /\ reel.launches = 0 <=> reel.browser = "none"
             /\ reel.res # NoRes)
  /\ [][reel.at = "finally" =>
          /\ reel'.res = reel.res
          /\ reel.browser = "open" => reel'.browser \in {"closed", "close-failed"}]_vars

\* The alternative method found the video, the response was chosen, and the
\* close of the browser was rejected.
C39_Witness ==
  /\ reel.at = "done"
  /\ reel.launches = 1
  /\ reel.browser = "close-failed"
  /\ reel.res.status = 200
  /\ Get(reel.res.body, "method") = "alternative-video-element"

=============================================================================
